---- MODULE Spec2Model ----
(***************************************************************************)
(* A model of the claim validation engine of                               *)
(* claim_processing_automation/utils/validators.py: one validate_claim run *)
(* over an input field map, stage by stage, and the serialisation of the   *)
(* returned ValidationResult.                                              *)
(*                                                                         *)
(* Python values are records [t, s, n]: t is the type ("none", "str",      *)
(* "int", "float"), s the characters of a str (a sequence of one-character *)
(* strings), n the value of an int, or of a float in hundredths (the       *)
(* monetary amounts of the model are multiples of 0.01).                   *)
(* risk_score is an IEEE-754 double, kept exactly (see the F* operators).  *)
(***************************************************************************)
EXTENDS Integers, Sequences, FiniteSets, TLC

(***************************************************************************)
(* Python values.                                                          *)
(***************************************************************************)
NoneV == [t |-> "none", s |-> <<>>, n |-> 0]
StrV(chars) == [t |-> "str", s |-> chars, n |-> 0]
IntV(i) == [t |-> "int", s |-> <<>>, n |-> i]
FloatV(hundredths) == [t |-> "float", s |-> <<>>, n |-> hundredths]

IsStr(v) == v.t = "str"
IsNum(v) == v.t \in {"int", "float"}

\* dict.get(key): None when the key is absent.
Get(d, key) == IF key \in DOMAIN d THEN d[key] ELSE NoneV

\* dict.get(key, ""): the empty string when the key is absent.
GetOrEmpty(d, key) == IF key \in DOMAIN d THEN d[key] ELSE StrV(<<>>)

\* Python truthiness: None, "", 0 and 0.0 are false.
Truthy(v) ==
    CASE v.t = "none" -> FALSE
      [] v.t = "str" -> v.s # <<>>
      [] OTHER -> v.n # 0

(***************************************************************************)
(* Characters and strings.                                                 *)
(***************************************************************************)
UpperLetters == <<"A","B","C","D","E","F","G","H","I","J","K","L","M",
                  "N","O","P","Q","R","S","T","U","V","W","X","Y","Z">>
LowerLetters == <<"a","b","c","d","e","f","g","h","i","j","k","l","m",
                  "n","o","p","q","r","s","t","u","v","w","x","y","z">>
DigitChars == <<"0","1","2","3","4","5","6","7","8","9">>

Range(f) == {f[i] : i \in DOMAIN f}
UpperSet == Range(UpperLetters)
LowerSet == Range(LowerLetters)
DigitSet == Range(DigitChars)
\* Python's str.strip() and the regex class \s.
Whitespace == {" ", "\t", "\n", "\r"}

IndexIn(seq, c) == CHOOSE i \in DOMAIN seq : seq[i] = c

LowerChar(c) == IF c \in UpperSet THEN LowerLetters[IndexIn(UpperLetters, c)] ELSE c
UpperChar(c) == IF c \in LowerSet THEN UpperLetters[IndexIn(LowerLetters, c)] ELSE c

\* str.lower() and str.upper().
Lower(s) == [i \in DOMAIN s |-> LowerChar(s[i])]
Upper(s) == [i \in DOMAIN s |-> UpperChar(s[i])]

\* str.strip(): leading and trailing whitespace removed.
Strip(s) ==
    LET keep == {i \in DOMAIN s : s[i] \notin Whitespace}
    IN  IF keep = {} THEN <<>>
        ELSE LET lo == CHOOSE i \in keep : \A j \in keep : i <= j
                 hi == CHOOSE i \in keep : \A j \in keep : j <= i
             IN  SubSeq(s, lo, hi)

\* sub in s
Contains(sub, s) ==
    \E i \in 0..(Len(s) - Len(sub)) : SubSeq(s, i + 1, i + Len(sub)) = sub

\* re.match(r"^[class]+$", s): one or more characters of the class; Python's $
\* also matches before a final newline.
ReMatchPlus(s, class) ==
    LET body == IF Len(s) > 0 /\ s[Len(s)] = "\n" THEN SubSeq(s, 1, Len(s) - 1) ELSE s
    IN  \/ Len(s) > 0 /\ \A i \in DOMAIN s : s[i] \in class
        \/ Len(body) > 0 /\ \A i \in DOMAIN body : body[i] \in class

\* re.match(r"^[class]{n}$", s)
ReMatchCount(s, class, n) ==
    LET body == IF Len(s) > 0 /\ s[Len(s)] = "\n" THEN SubSeq(s, 1, Len(s) - 1) ELSE s
    IN  \/ Len(s) = n /\ \A i \in DOMAIN s : s[i] \in class
        \/ Len(body) = n /\ \A i \in DOMAIN body : body[i] \in class

AllDigits(s) == Len(s) > 0 /\ \A i \in DOMAIN s : s[i] \in DigitSet

DigitVal(c) == IndexIn(DigitChars, c) - 1

RECURSIVE DigitsVal(_)
DigitsVal(s) ==
    IF s = <<>> THEN 0 ELSE 10 * DigitsVal(SubSeq(s, 1, Len(s) - 1)) + DigitVal(s[Len(s)])

\* The positions of character c in s, in increasing order.
RECURSIVE Positions(_, _, _)
Positions(s, c, from) ==
    IF from > Len(s) THEN <<>>
    ELSE IF s[from] = c THEN <<from>> \o Positions(s, c, from + 1)
    ELSE Positions(s, c, from + 1)

Negated(parsed) == [ok |-> parsed.ok, v |-> 0 - parsed.v]

\* An optional sign before what Unsigned parses.
Signed(b, Unsigned(_)) ==
    IF Len(b) > 0 /\ b[1] = "-" THEN Negated(Unsigned(Tail(b)))
    ELSE IF Len(b) > 0 /\ b[1] = "+" THEN Unsigned(Tail(b))
    ELSE Unsigned(b)

ParseDigits(digits) ==
    IF AllDigits(digits) THEN [ok |-> TRUE, v |-> DigitsVal(digits)] ELSE [ok |-> FALSE, v |-> 0]

\* int(str): whitespace stripped, an optional sign, decimal digits.
ParseInt(s) == Signed(Strip(s), ParseDigits)

\* The digits before and after the decimal point, in hundredths (the model keeps
\* two digits of the fraction).
ParseParts(whole, frac) ==
    IF /\ whole = <<>> \/ AllDigits(whole)
       /\ frac = <<>> \/ AllDigits(frac)
       /\ whole # <<>> \/ frac # <<>>
    THEN [ok |-> TRUE, v |-> 100 * DigitsVal(whole) + DigitsVal(SubSeq(frac \o <<"0", "0">>, 1, 2))]
    ELSE [ok |-> FALSE, v |-> 0]

ParseAtDots(u, dots) ==
    IF Len(dots) = 0 THEN ParseParts(u, <<>>)
    ELSE IF Len(dots) = 1 THEN ParseParts(SubSeq(u, 1, dots[1] - 1), SubSeq(u, dots[1] + 1, Len(u)))
    ELSE [ok |-> FALSE, v |-> 0]

ParseDecimal(u) == ParseAtDots(u, Positions(u, ".", 1))

\* float(str), in hundredths: whitespace stripped, an optional sign, digits with an
\* optional fraction.
ParseFloat(s) == Signed(Strip(s), ParseDecimal)

\* float(value): the value in hundredths, or the exception raised.
ToFloat(v) ==
    CASE v.t = "float" -> [ok |-> TRUE, v |-> v.n, exc |-> ""]
      [] v.t = "int" -> [ok |-> TRUE, v |-> 100 * v.n, exc |-> ""]
      [] v.t = "str" -> LET p == ParseFloat(v.s)
                        IN  [ok |-> p.ok, v |-> p.v, exc |-> IF p.ok THEN "" ELSE "ValueError"]
      [] OTHER -> [ok |-> FALSE, v |-> 0, exc |-> "TypeError"]

\* int(value): floats truncate toward zero.
ToInt(v) ==
    CASE v.t = "int" -> [ok |-> TRUE, v |-> v.n, exc |-> ""]
      [] v.t = "float" ->
            [ok |-> TRUE, v |-> IF v.n >= 0 THEN v.n \div 100 ELSE 0 - ((0 - v.n) \div 100),
             exc |-> ""]
      [] v.t = "str" -> LET p == ParseInt(v.s)
                        IN  [ok |-> p.ok, v |-> p.v, exc |-> IF p.ok THEN "" ELSE "ValueError"]
      [] OTHER -> [ok |-> FALSE, v |-> 0, exc |-> "TypeError"]

\* str(value).strip() is non-empty (the fill test of the risk assessment).
StrNonBlank(v) ==
    CASE v.t = "str" -> Strip(v.s) # <<>>
      [] v.t = "none" -> TRUE
      [] OTHER -> TRUE

(***************************************************************************)
(* Dates: datetime.strptime(...).date(), date comparison, weekday(),       *)
(* strftime("%Y-%m-%d").                                                   *)
(***************************************************************************)
IsLeap(y) == (y % 4 = 0 /\ y % 100 # 0) \/ y % 400 = 0

DaysInMonth(y, m) ==
    CASE m \in {1, 3, 5, 7, 8, 10, 12} -> 31
      [] m \in {4, 6, 9, 11} -> 30
      [] OTHER -> IF IsLeap(y) THEN 29 ELSE 28

RECURSIVE DaysBeforeMonth(_, _)
DaysBeforeMonth(y, m) ==
    IF m = 1 THEN 0 ELSE DaysBeforeMonth(y, m - 1) + DaysInMonth(y, m - 1)

\* date.toordinal(): 0001-01-01 is day 1.
Ordinal(dt) ==
    LET p == dt.y - 1
    IN  365 * p + (p \div 4) - (p \div 100) + (p \div 400) + DaysBeforeMonth(dt.y, dt.m) + dt.d

\* date.weekday(): Monday is 0, Sunday is 6.
Weekday(dt) == (Ordinal(dt) + 6) % 7

\* strptime's %Y: exactly four digits.
YearField(s) == Len(s) = 4 /\ AllDigits(s)
\* strptime's %m: 1[0-2] | 0[1-9] | [1-9].
MonthField(s) == Len(s) \in {1, 2} /\ AllDigits(s) /\ DigitsVal(s) \in 1..12
\* strptime's %d: 3[01] | [12]\d | 0[1-9] | [1-9] | " "[1-9].
DayField(s) ==
    \/ Len(s) \in {1, 2} /\ AllDigits(s) /\ DigitsVal(s) \in 1..31
    \/ Len(s) = 2 /\ s[1] = " " /\ s[2] \in DigitSet /\ s[2] # "0"
DayVal(s) == IF s[1] = " " THEN DigitVal(s[2]) ELSE DigitsVal(s)

\* datetime.strptime(s, fmt).date() for the formats that are three fields joined by
\* one separator; order gives the place of year, month and day among the fields.
\* A field that does not match, text left over, the year 0 or a day the month
\* does not have raise ValueError (ok = FALSE).
Strptime(s, sep, order) ==
    LET cuts == Positions(s, sep, 1)
        f1 == SubSeq(s, 1, cuts[1] - 1)
        f2 == SubSeq(s, cuts[1] + 1, cuts[2] - 1)
        f3 == SubSeq(s, cuts[2] + 1, Len(s))
        fields == <<f1, f2, f3>>
        ys == fields[order.y]
        ms == fields[order.m]
        ds == fields[order.d]
    IN  IF Len(cuts) # 2 THEN [ok |-> FALSE, y |-> 0, m |-> 0, d |-> 0]
        ELSE IF ~(YearField(ys) /\ MonthField(ms) /\ DayField(ds))
        THEN [ok |-> FALSE, y |-> 0, m |-> 0, d |-> 0]
        ELSE IF DigitsVal(ys) = 0 \/ DayVal(ds) > DaysInMonth(DigitsVal(ys), DigitsVal(ms))
        THEN [ok |-> FALSE, y |-> 0, m |-> 0, d |-> 0]
        ELSE [ok |-> TRUE, y |-> DigitsVal(ys), m |-> DigitsVal(ms), d |-> DayVal(ds)]

\* "%Y-%m-%d"
StrptimeISO(s) == Strptime(s, "-", [y |-> 1, m |-> 2, d |-> 3])

\* The formats with the day-first reading of a slash date tried before the
\* month-first one.
date_formats_day_first ==
    << [sep |-> "-", order |-> [y |-> 1, m |-> 2, d |-> 3]],
       [sep |-> "/", order |-> [y |-> 3, m |-> 2, d |-> 1]],
       [sep |-> "/", order |-> [y |-> 3, m |-> 1, d |-> 2]],
       [sep |-> "/", order |-> [y |-> 1, m |-> 2, d |-> 3]] >>

\* date_formats = ["%Y-%m-%d", "%m/%d/%Y", "%d/%m/%Y", "%Y/%m/%d"]
date_formats ==
    << [sep |-> "-", order |-> [y |-> 1, m |-> 2, d |-> 3]],
       [sep |-> "/", order |-> [y |-> 3, m |-> 1, d |-> 2]],
       [sep |-> "/", order |-> [y |-> 3, m |-> 2, d |-> 1]],
       [sep |-> "/", order |-> [y |-> 1, m |-> 2, d |-> 3]] >>

\* The loop over date_formats: the first format that parses wins.
RECURSIVE ParseIncidentDate(_, _)
ParseIncidentDate(s, i) ==
    IF i > Len(date_formats) THEN [ok |-> FALSE, y |-> 0, m |-> 0, d |-> 0]
    ELSE LET r == Strptime(s, date_formats[i].sep, date_formats[i].order)
         IN  IF r.ok THEN r ELSE ParseIncidentDate(s, i + 1)

Pad2(n) == <<DigitChars[(n \div 10) + 1], DigitChars[(n % 10) + 1]>>
Pad4(n) == Pad2(n \div 100) \o Pad2(n % 100)

\* parsed_date.strftime("%Y-%m-%d")
StrftimeISO(dt) == Pad4(dt.y) \o <<"-">> \o Pad2(dt.m) \o <<"-">> \o Pad2(dt.d)

(***************************************************************************)
(* IEEE-754 doubles in [0, 4), exactly.  Every weight and threshold of the *)
(* risk score is a multiple of 2^-57; a double x is the pair <<hi, lo>>    *)
(* with x = (hi * 2^29 + lo) * 2^-57.  FAdd is the exact sum rounded to 53 *)
(* significant bits, ties to even, as the hardware does.                   *)
(***************************************************************************)
RECURSIVE Pow2(_)
Pow2(k) == IF k = 0 THEN 1 ELSE 2 * Pow2(k - 1)

LimbBase == Pow2(29)

\* The bits to drop: the value has 53 + k significant bits.
RECURSIVE DropBits(_, _)
DropBits(hi, k) == IF hi < Pow2(24 + k) THEN k ELSE DropBits(hi, k + 1)

FNorm(hi, lo) == IF lo >= LimbBase THEN <<hi + 1, lo - LimbBase>> ELSE <<hi, lo>>

\* x rounded to a multiple of unit = 2^k, ties to the even multiple.
RoundTo(x, unit) ==
    IF \/ 2 * (x[2] % unit) > unit
       \/ (2 * (x[2] % unit) = unit /\ (x[2] \div unit) % 2 = 1)
    THEN FNorm(x[1], x[2] - (x[2] % unit) + unit)
    ELSE <<x[1], x[2] - (x[2] % unit)>>

FRound(x) == RoundTo(x, Pow2(DropBits(x[1], 0)))

FAdd(x, w) == FRound(FNorm(x[1] + w[1], x[2] + w[2]))
FGt(x, w) == x[1] > w[1] \/ (x[1] = w[1] /\ x[2] > w[2])
FMin(x, w) == IF FGt(x, w) THEN w ELSE x

F0_0 == <<0, 0>>
F0_05 == <<13421772, 429496730>>
F0_1 == <<26843545, 322122548>>
F0_2 == <<53687091, 107374184>>
F0_3 == <<80530636, 429496728>>
F0_5 == <<134217728, 0>>
F0_6 == <<161061273, 322122544>>
F0_7 == <<187904819, 107374176>>
F0_8 == <<214748364, 429496736>>
F1_0 == <<268435456, 0>>

(***************************************************************************)
(* Configuration (config/settings.py), in hundredths.                      *)
(***************************************************************************)
max_claim_amount == 10000000
manual_review_threshold == 5000000
auto_approve_threshold == 100000

\* The thresholds written into _detect_fraud_indicators, in hundredths.
HighValueThreshold == 5000000
RoundUnit == 100000
RoundMinimum == 500000

(***************************************************************************)
(* ValidationResult.                                                       *)
(***************************************************************************)
EmptyDict == [k \in {} |-> NoneV]

DictSet(d, key, value) == [k \in DOMAIN d \cup {key} |-> IF k = key THEN value ELSE d[k]]

\* ValidationResult.__init__
ValidationResult ==
    [is_valid |-> TRUE, errors |-> <<>>, warnings |-> <<>>, corrections |-> EmptyDict,
     risk_score |-> F0_0, fraud_indicators |-> <<>>]

\* add_error that records the error and forgets the flag.
add_error_flag_kept(r, field, message) ==
    [r EXCEPT !.errors = Append(@, [field |-> field, message |-> message])]

add_error(r, field, message) ==
    [r EXCEPT !.is_valid = FALSE,
              !.errors = Append(@, [field |-> field, message |-> message])]

add_warning(r, field, message) ==
    [r EXCEPT !.warnings = Append(@, [field |-> field, message |-> message])]

add_correction(r, field, original, corrected) ==
    [r EXCEPT !.corrections = DictSet(@, field, [original |-> original, corrected |-> corrected])]

\* severity_scores.get(severity, 0.1)
severity_scores(severity) ==
    CASE severity = "low" -> F0_1
      [] severity = "medium" -> F0_3
      [] severity = "high" -> F0_5
      [] OTHER -> F0_1

\* An add_fraud_indicator that turns the outcome invalid on a medium or high
\* indicator.
add_fraud_indicator_blocking(r, indicator, severity, details) ==
    [r EXCEPT !.fraud_indicators =
                  Append(@, [indicator |-> indicator, severity |-> severity, details |-> details]),
              !.risk_score = FAdd(@, severity_scores(severity)),
              !.is_valid = @ /\ severity = "low"]

\* An add_fraud_indicator that caps the score at 1.0 as it goes.
add_fraud_indicator_capped(r, indicator, severity, details) ==
    [r EXCEPT !.fraud_indicators =
                  Append(@, [indicator |-> indicator, severity |-> severity, details |-> details]),
              !.risk_score = FMin(FAdd(@, severity_scores(severity)), F1_0)]

add_fraud_indicator(r, indicator, severity, details) ==
    [r EXCEPT !.fraud_indicators =
                  Append(@, [indicator |-> indicator, severity |-> severity, details |-> details]),
              !.risk_score = FAdd(@, severity_scores(severity))]

\* The text of a fraud indicator's details: the f-string's fixed text and what it
\* interpolates (an amount in hundredths, a keyword, field names).
Details(text, amount, keyword, fields) ==
    [text |-> text, amount |-> amount, keyword |-> keyword, fields |-> fields]

(***************************************************************************)
(* A sub-validator returns the accumulator and the exception that left it  *)
(* ("" when it returned normally).                                          *)
(***************************************************************************)
Ok(r) == [r |-> r, exc |-> ""]
Raise(r, message) == [r |-> r, exc |-> message]

\* len(v) of a value that is no string: TypeError.
NoLen(v) == "object of type '" \o (IF v.t = "none" THEN "NoneType" ELSE v.t) \o "' has no len()"
\* v.lower() and the like of a value that is no string: AttributeError.
NoAttr(v, attr) == "'" \o v.t \o "' object has no attribute '" \o attr \o "'"

required_fields == <<"claimant_name", "incident_date", "claim_amount", "incident_description">>

\* The test without the strip().
RequiredMissing_no_strip(value) == ~Truthy(value)

RequiredMissing(value) == ~Truthy(value) \/ (IsStr(value) /\ Strip(value.s) = <<>>)

RECURSIVE RequiredLoop(_, _, _)
RequiredLoop(claim_data, r, i) ==
    IF i > Len(required_fields) THEN r
    ELSE LET field == required_fields[i]
             value == Get(claim_data, field)
         IN  RequiredLoop(claim_data,
                 IF RequiredMissing(value)
                 THEN add_error(r, field, "Required field '" \o field \o "' is missing or empty")
                 ELSE r,
                 i + 1)

_validate_required_fields(claim_data, r) == Ok(RequiredLoop(claim_data, r, 1))

(***************************************************************************)
(* The libraries the personal-information stage calls.                     *)
(***************************************************************************)
LocalChars == UpperSet \cup LowerSet \cup DigitSet \cup {".", "_", "+", "-"}
DomainChars == UpperSet \cup LowerSet \cup DigitSet \cup {".", "-"}

\* The domains the deliverability check of email_validator resolves.
DeliverableDomains == {<<"e","x","a","m","p","l","e",".","c","o","m">>}

\* email_validator.validate_email: one "@" between a non-empty local part and a
\* dotted domain whose labels are non-empty; the domain must resolve. The
\* normalized address keeps the local part and lower-cases the domain.
validate_email(s) ==
    LET ats == Positions(s, "@", 1)
        local == SubSeq(s, 1, ats[1] - 1)
        domain == Lower(SubSeq(s, ats[1] + 1, Len(s)))
        dots == Positions(domain, ".", 1)
    IN  IF Len(ats) # 1
        THEN [ok |-> FALSE, email |-> <<>>,
              reason |-> "The email address is not valid. It must have exactly one @-sign."]
        ELSE IF local = <<>> \/ \E i \in DOMAIN local : local[i] \notin LocalChars
        THEN [ok |-> FALSE, email |-> <<>>,
              reason |-> "The email address contains invalid characters before the @-sign."]
        ELSE IF \/ Len(dots) = 0
                \/ \E i \in DOMAIN domain : domain[i] \notin DomainChars
                \/ domain[1] = "." \/ domain[Len(domain)] = "."
                \/ \E i \in 1..(Len(dots) - 1) : dots[i + 1] = dots[i] + 1
        THEN [ok |-> FALSE, email |-> <<>>,
              reason |-> "The part after the @-sign is not valid."]
        ELSE IF domain \notin DeliverableDomains
        THEN [ok |-> FALSE, email |-> <<>>,
              reason |-> "The domain name does not exist."]
        ELSE [ok |-> TRUE, email |-> local \o <<"@">> \o domain, reason |-> ""]

RECURSIVE OnlyDigits(_)
OnlyDigits(s) ==
    IF s = <<>> THEN <<>>
    ELSE (IF s[1] \in DigitSet THEN <<s[1]>> ELSE <<>>) \o OnlyDigits(Tail(s))

PhoneChars == DigitSet \cup {" ", "(", ")", "-", ".", "+"}

\* phonenumbers.parse(s, "US"), is_valid_number and format_number(..., NATIONAL):
\* the national number is the digits, without a leading country code 1; fewer
\* than three digits or foreign characters do not parse; a valid US number has
\* ten digits, with area code and exchange starting 2-9.
phonenumbers_parse(s) ==
    LET digits == OnlyDigits(s)
        national == IF Len(digits) = 11 /\ digits[1] = "1" THEN Tail(digits) ELSE digits
        valid == /\ Len(national) = 10
                 /\ national[1] \notin {"0", "1"}
                 /\ national[4] \notin {"0", "1"}
    IN  [parsed |-> Len(digits) >= 3 /\ \A i \in DOMAIN s : s[i] \in PhoneChars,
         valid |-> valid,
         formatted |-> IF valid
                       THEN <<"(">> \o SubSeq(national, 1, 3) \o <<")", " ">>
                            \o SubSeq(national, 4, 6) \o <<"-">> \o SubSeq(national, 7, 10)
                       ELSE <<>>]

(***************************************************************************)
(* _validate_personal_information                                          *)
(***************************************************************************)
\* [a-zA-Z\s\-\.\']
NameChars == UpperSet \cup LowerSet \cup Whitespace \cup {"-", ".", "'"}

PersonalName(claim_data, r) ==
    LET claimant_name == Get(claim_data, "claimant_name")
    IN  IF ~Truthy(claimant_name) THEN Ok(r)
        ELSE IF ~IsStr(claimant_name) THEN Raise(r, NoLen(claimant_name))
        ELSE IF Len(claimant_name.s) < 2
        THEN Ok(add_error(r, "claimant_name", "Name is too short"))
        ELSE IF Len(claimant_name.s) > 100
        THEN Ok(add_error(r, "claimant_name", "Name is too long"))
        ELSE IF ~ReMatchPlus(claimant_name.s, NameChars)
        THEN Ok(add_warning(r, "claimant_name", "Name contains unusual characters"))
        ELSE Ok(r)

\* The email step that reports an address it had to normalize as an error.
PersonalEmail_normalized_only(claim_data, r) ==
    LET claimant_email == Get(claim_data, "claimant_email")
        validated_email == validate_email(claimant_email.s)
    IN  IF ~Truthy(claimant_email) THEN Ok(r)
        ELSE IF ~IsStr(claimant_email) THEN Raise(r, NoAttr(claimant_email, "decode"))
        ELSE IF ~validated_email.ok \/ validated_email.email # claimant_email.s
        THEN Ok(add_error(r, "claimant_email",
                          "Invalid email address: " \o validated_email.reason))
        ELSE Ok(r)

PersonalEmail(claim_data, r) ==
    LET claimant_email == Get(claim_data, "claimant_email")
        validated_email == validate_email(claimant_email.s)
    IN  IF ~Truthy(claimant_email) THEN Ok(r)
        ELSE IF ~IsStr(claimant_email) THEN Raise(r, NoAttr(claimant_email, "decode"))
        ELSE IF ~validated_email.ok
        THEN Ok(add_error(r, "claimant_email",
                          "Invalid email address: " \o validated_email.reason))
        ELSE IF validated_email.email # claimant_email.s
        THEN Ok(add_correction(r, "claimant_email", claimant_email,
                               StrV(validated_email.email)))
        ELSE Ok(r)

PersonalPhone(claim_data, r) ==
    LET claimant_phone == Get(claim_data, "claimant_phone")
        parsed_number == phonenumbers_parse(claimant_phone.s)
    IN  IF ~Truthy(claimant_phone) THEN Ok(r)
        ELSE IF ~IsStr(claimant_phone) THEN Raise(r, NoLen(claimant_phone))
        ELSE IF ~parsed_number.parsed
        THEN Ok(add_error(r, "claimant_phone", "Unable to parse phone number"))
        ELSE IF ~parsed_number.valid
        THEN Ok(add_error(r, "claimant_phone", "Invalid phone number"))
        ELSE IF parsed_number.formatted # claimant_phone.s
        THEN Ok(add_correction(r, "claimant_phone", claimant_phone,
                               StrV(parsed_number.formatted)))
        ELSE Ok(r)

\* Runs Second on the accumulator First left, unless First raised.
Then(first, Second(_)) == IF first.exc # "" THEN first ELSE Second(first.r)

_validate_personal_information(claim_data, r) ==
    LET Email(x) == PersonalEmail(claim_data, x)
        Phone(x) == PersonalPhone(claim_data, x)
    IN  Then(Then(PersonalName(claim_data, r), Email), Phone)

(***************************************************************************)
(* _validate_policy_information                                            *)
(***************************************************************************)
known_insurers ==
    << <<"S","t","a","t","e"," ","F","a","r","m">>,
       <<"G","E","I","C","O">>,
       <<"P","r","o","g","r","e","s","s","i","v","e">>,
       <<"A","l","l","s","t","a","t","e">>,
       <<"U","S","A","A">>,
       <<"L","i","b","e","r","t","y"," ","M","u","t","u","a","l">>,
       <<"F","a","r","m","e","r","s">>,
       <<"N","a","t","i","o","n","w","i","d","e">>,
       <<"A","m","e","r","i","c","a","n"," ","F","a","m","i","l","y">>,
       <<"T","r","a","v","e","l","e","r","s">>,
       <<"A","u","t","o","-","O","w","n","e","r","s">>,
       <<"A","A","A">>,
       <<"E","s","u","r","a","n","c","e">>,
       <<"T","h","e"," ","G","e","n","e","r","a","l">> >>

PolicyNumber(claim_data, r) ==
    LET policy_number == Get(claim_data, "policy_number")
    IN  IF ~Truthy(policy_number) THEN Ok(r)
        ELSE IF ~IsStr(policy_number) THEN Raise(r, NoLen(policy_number))
        ELSE IF Len(policy_number.s) < 5
        THEN Ok(add_error(r, "policy_number", "Policy number is too short"))
        ELSE IF Len(policy_number.s) > 50
        THEN Ok(add_error(r, "policy_number", "Policy number is too long"))
        ELSE IF ~ReMatchPlus(Upper(policy_number.s), UpperSet \cup DigitSet \cup {"-"})
        THEN Ok(add_warning(r, "policy_number", "Policy number format is unusual"))
        ELSE Ok(r)

PolicyInsurer(claim_data, r) ==
    LET insurance_company == Get(claim_data, "insurance_company")
    IN  IF ~Truthy(insurance_company) THEN Ok(r)
        ELSE IF ~IsStr(insurance_company) THEN Raise(r, NoAttr(insurance_company, "lower"))
        ELSE IF ~\E i \in DOMAIN known_insurers :
                   Contains(Lower(known_insurers[i]), Lower(insurance_company.s))
        THEN Ok(add_warning(r, "insurance_company", "Insurance company not in common list"))
        ELSE Ok(r)

_validate_policy_information(claim_data, r) ==
    LET Insurer(x) == PolicyInsurer(claim_data, x)
    IN  Then(PolicyNumber(claim_data, r), Insurer)

(***************************************************************************)
(* _validate_incident_information; today is date.today().                  *)
(***************************************************************************)
\* timedelta(days=365 * 5)
FiveYearsDays == 1825

\* The date check with today itself counted as a future date.
IncidentDate_today_is_future(claim_data, r, today) ==
    LET incident_date == Get(claim_data, "incident_date")
        parsed_date == ParseIncidentDate(incident_date.s, 1)
        standard_format == StrftimeISO(parsed_date)
        dated == IF Ordinal(parsed_date) >= Ordinal(today)
                 THEN add_error(r, "incident_date", "Incident date cannot be in the future")
                 ELSE IF Ordinal(parsed_date) < Ordinal(today) - FiveYearsDays
                 THEN add_warning(r, "incident_date", "Incident date is more than 5 years ago")
                 ELSE r
    IN  IF ~Truthy(incident_date) \/ ~IsStr(incident_date) THEN Ok(r)
        ELSE IF ~parsed_date.ok
        THEN Ok(add_error(r, "incident_date", "Unable to parse incident date"))
        ELSE IF incident_date.s # standard_format
        THEN Ok(add_correction(dated, "incident_date", incident_date, StrV(standard_format)))
        ELSE Ok(dated)

IncidentDate(claim_data, r, today) ==
    LET incident_date == Get(claim_data, "incident_date")
        parsed_date == ParseIncidentDate(incident_date.s, 1)
        standard_format == StrftimeISO(parsed_date)
        dated == IF Ordinal(parsed_date) > Ordinal(today)
                 THEN add_error(r, "incident_date", "Incident date cannot be in the future")
                 ELSE IF Ordinal(parsed_date) < Ordinal(today) - FiveYearsDays
                 THEN add_warning(r, "incident_date", "Incident date is more than 5 years ago")
                 ELSE r
    IN  IF ~Truthy(incident_date) \/ ~IsStr(incident_date) THEN Ok(r)
        ELSE IF ~parsed_date.ok
        THEN Ok(add_error(r, "incident_date", "Unable to parse incident date"))
        ELSE IF incident_date.s # standard_format
        THEN Ok(add_correction(dated, "incident_date", incident_date, StrV(standard_format)))
        ELSE Ok(dated)

IncidentDescription(claim_data, r) ==
    LET incident_description == Get(claim_data, "incident_description")
    IN  IF ~Truthy(incident_description) THEN Ok(r)
        ELSE IF ~IsStr(incident_description) THEN Raise(r, NoLen(incident_description))
        ELSE IF Len(incident_description.s) < 10
        THEN Ok(add_warning(r, "incident_description", "Incident description is very brief"))
        ELSE IF Len(incident_description.s) > 2000
        THEN Ok(add_warning(r, "incident_description",
                            "Incident description is unusually long"))
        ELSE Ok(r)

_validate_incident_information(claim_data, r, today) ==
    LET Description(x) == IncidentDescription(claim_data, x)
    IN  Then(IncidentDate(claim_data, r, today), Description)

(***************************************************************************)
(* _validate_vehicle_information; current_year is datetime.now().year.     *)
(***************************************************************************)
\* set('IOQ')
invalid_chars == {"I", "O", "Q"}

\* The class with no letter left out.
VinChars_all_letters == UpperSet \cup DigitSet

\* [A-HJ-NPR-Z0-9]
VinChars == (UpperSet \ invalid_chars) \cup DigitSet

\* A checksum that wants a check digit (a digit or X) in the ninth place.
_validate_vin_checksum_check_digit(vin) ==
    IF Len(vin) # 17 THEN FALSE
    ELSE IF \E i \in DOMAIN vin : UpperChar(vin[i]) \in invalid_chars THEN FALSE
    ELSE UpperChar(vin[9]) \in DigitSet \cup {"X"}

_validate_vin_checksum(vin) ==
    IF Len(vin) # 17 THEN FALSE
    ELSE IF \E i \in DOMAIN vin : UpperChar(vin[i]) \in invalid_chars THEN FALSE
    ELSE TRUE

\* The first year that is not "too old".
OldestYear == 1900
\* Older than this many years: a classic car.
ClassicAge == 50

VehicleYear(claim_data, r, current_year) ==
    LET vehicle_year == Get(claim_data, "vehicle_year")
        year == ToInt(vehicle_year)
    IN  IF ~Truthy(vehicle_year) THEN Ok(r)
        ELSE IF ~year.ok
        THEN Ok(add_error(r, "vehicle_year", "Invalid vehicle year format"))
        ELSE IF year.v < OldestYear
        THEN Ok(add_error(r, "vehicle_year", "Vehicle year is too old"))
        ELSE IF year.v > current_year + 1
        THEN Ok(add_error(r, "vehicle_year", "Vehicle year cannot be in the future"))
        ELSE IF year.v < current_year - ClassicAge
        THEN Ok(add_warning(r, "vehicle_year", "Vehicle is very old (classic car?)"))
        ELSE Ok(r)

VinLength == 17

VehicleVin(claim_data, r) ==
    LET vehicle_vin == Get(claim_data, "vehicle_vin")
    IN  IF ~Truthy(vehicle_vin) THEN Ok(r)
        ELSE IF ~IsStr(vehicle_vin) THEN Raise(r, NoLen(vehicle_vin))
        ELSE IF Len(vehicle_vin.s) # VinLength
        THEN Ok(add_error(r, "vehicle_vin", "VIN must be exactly 17 characters"))
        ELSE IF ~ReMatchCount(Upper(vehicle_vin.s), VinChars, VinLength)
        THEN Ok(add_error(r, "vehicle_vin", "VIN contains invalid characters"))
        ELSE IF ~_validate_vin_checksum(vehicle_vin.s)
        THEN Ok(add_warning(r, "vehicle_vin", "VIN checksum validation failed"))
        ELSE Ok(r)

VehiclePlate(claim_data, r) ==
    LET license_plate == Get(claim_data, "license_plate")
    IN  IF ~Truthy(license_plate) THEN Ok(r)
        ELSE IF ~IsStr(license_plate) THEN Raise(r, NoLen(license_plate))
        ELSE IF Len(license_plate.s) < 2 \/ Len(license_plate.s) > 10
        THEN Ok(add_warning(r, "license_plate", "License plate length is unusual"))
        ELSE Ok(r)

_validate_vehicle_information(claim_data, r, current_year) ==
    LET Vin(x) == VehicleVin(claim_data, x)
        Plate(x) == VehiclePlate(claim_data, x)
    IN  Then(Then(VehicleYear(claim_data, r, current_year), Vin), Plate)

(***************************************************************************)
(* _validate_financial_information                                         *)
(***************************************************************************)
\* The amount test with 0 let through.
FinancialClaimAmount_zero_passes(claim_data, r) ==
    LET claim_amount == Get(claim_data, "claim_amount")
        amount == ToFloat(claim_amount)
    IN  IF claim_amount.t = "none" THEN r
        ELSE IF ~amount.ok
        THEN add_error(r, "claim_amount", "Invalid claim amount format")
        ELSE IF amount.v < 0
        THEN add_error(r, "claim_amount", "Claim amount must be positive")
        ELSE IF amount.v > max_claim_amount
        THEN add_error(r, "claim_amount", "Claim amount exceeds maximum allowed")
        ELSE IF amount.v > manual_review_threshold
        THEN add_warning(r, "claim_amount", "High value claim requires manual review")
        ELSE r

FinancialClaimAmount(claim_data, r) ==
    LET claim_amount == Get(claim_data, "claim_amount")
        amount == ToFloat(claim_amount)
    IN  IF claim_amount.t = "none" THEN r
        ELSE IF ~amount.ok
        THEN add_error(r, "claim_amount", "Invalid claim amount format")
        ELSE IF amount.v <= 0
        THEN add_error(r, "claim_amount", "Claim amount must be positive")
        ELSE IF amount.v > max_claim_amount
        THEN add_error(r, "claim_amount",
                       "Claim amount exceeds maximum allowed ("
                           \o ToString(max_claim_amount \div 100) \o ".0)")
        ELSE IF amount.v > manual_review_threshold
        THEN add_warning(r, "claim_amount", "High value claim requires manual review")
        ELSE r

Abs(x) == IF x < 0 THEN 0 - x ELSE x
Max(x, y) == IF x > y THEN x ELSE y

FinancialEstimate(claim_data, r) ==
    LET estimated_damage == Get(claim_data, "estimated_damage_amount")
        claim_amount_val == Get(claim_data, "claim_amount")
        est_val == ToFloat(estimated_damage)
        claim_val == ToFloat(claim_amount_val)
    IN  IF estimated_damage.t = "none" \/ claim_amount_val.t = "none" THEN r
        ELSE IF ~est_val.ok \/ ~claim_val.ok
        THEN add_error(r, "estimated_damage_amount", "Invalid estimated damage amount format")
        ELSE IF est_val.v <= 0
        THEN add_error(r, "estimated_damage_amount", "Estimated damage must be positive")
        \* abs(est_val - claim_val) / max(est_val, claim_val) > 0.5
        ELSE IF 2 * Abs(est_val.v - claim_val.v) > Max(est_val.v, claim_val.v)
        THEN add_warning(r, "amount_consistency",
                         "Large discrepancy between estimated damage and claim amount")
        ELSE r

_validate_financial_information(claim_data, r) ==
    Ok(FinancialEstimate(claim_data, FinancialClaimAmount(claim_data, r)))

(***************************************************************************)
(* _validate_business_rules                                                *)
(***************************************************************************)
high_risk_keywords ==
    << [name |-> "parking lot", chars |-> <<"p","a","r","k","i","n","g"," ","l","o","t">>],
       [name |-> "mall", chars |-> <<"m","a","l","l">>],
       [name |-> "downtown", chars |-> <<"d","o","w","n","t","o","w","n">>],
       [name |-> "highway", chars |-> <<"h","i","g","h","w","a","y">>],
       [name |-> "construction", chars |-> <<"c","o","n","s","t","r","u","c","t","i","o","n">>] >>

\* parsed_date.weekday() >= 5 for a string that "%Y-%m-%d" parses; any failure is
\* swallowed by the bare except.
IsWeekendISO(incident_date) ==
    /\ Truthy(incident_date)
    /\ IsStr(incident_date)
    /\ StrptimeISO(incident_date.s).ok
    /\ Weekday(StrptimeISO(incident_date.s)) >= 5

\* The first keyword of the list found in text, as a one-element sequence; <<>>
\* when there is none.
RECURSIVE FirstKeyword(_, _, _)
FirstKeyword(keywords, text, i) ==
    IF i > Len(keywords) THEN <<>>
    ELSE IF Contains(keywords[i].chars, text) THEN <<keywords[i].name>>
    ELSE FirstKeyword(keywords, text, i + 1)

BusinessWeekend(claim_data, r) ==
    IF IsWeekendISO(Get(claim_data, "incident_date"))
    THEN add_warning(r, "incident_timing", "Incident occurred on weekend")
    ELSE r

BusinessLocation(claim_data, r) ==
    LET incident_location == Get(claim_data, "incident_location")
        found == FirstKeyword(high_risk_keywords, Lower(incident_location.s), 1)
    IN  IF ~Truthy(incident_location) THEN Ok(r)
        ELSE IF ~IsStr(incident_location) THEN Raise(r, NoAttr(incident_location, "lower"))
        ELSE IF found # <<>>
        THEN Ok(add_warning(r, "location_risk",
                            "Incident in potentially high-risk location: " \o found[1]))
        ELSE Ok(r)

_validate_business_rules(claim_data, r) ==
    BusinessLocation(claim_data, BusinessWeekend(claim_data, r))

(***************************************************************************)
(* _detect_fraud_indicators                                                *)
(***************************************************************************)
vague_keywords ==
    << [name |-> "suddenly", chars |-> <<"s","u","d","d","e","n","l","y">>],
       [name |-> "out of nowhere", chars |-> <<"o","u","t"," ","o","f"," ","n","o","w","h","e","r","e">>],
       [name |-> "don't remember", chars |-> <<"d","o","n","'","t"," ","r","e","m","e","m","b","e","r">>],
       [name |-> "not sure", chars |-> <<"n","o","t"," ","s","u","r","e">>] >>

critical_fields == <<"policy_number", "incident_location", "vehicle_vin">>

FraudHighValue(claim_data, r) ==
    LET claim_amount == Get(claim_data, "claim_amount")
        amount == ToFloat(claim_amount)
    IN  IF Truthy(claim_amount) /\ amount.ok /\ amount.v > HighValueThreshold
        THEN add_fraud_indicator(r, "high_value_claim", "medium",
                 Details("Claim amount is unusually high", amount.v, "", <<>>))
        ELSE r

\* The name check comparing the names as written.
FraudNameMismatch_case_sensitive(claim_data, r) ==
    LET claimant_name == GetOrEmpty(claim_data, "claimant_name")
        policy_holder == GetOrEmpty(claim_data, "policy_holder_name")
    IN  IF ~Truthy(claimant_name) \/ ~Truthy(policy_holder) THEN Ok(r)
        ELSE IF ~IsStr(claimant_name) THEN Raise(r, NoAttr(claimant_name, "lower"))
        ELSE IF ~IsStr(policy_holder) THEN Raise(r, NoAttr(policy_holder, "lower"))
        ELSE IF claimant_name.s # policy_holder.s
        THEN Ok(add_fraud_indicator(r, "name_mismatch", "low",
                    Details("Claimant name differs from policy holder name", 0, "", <<>>)))
        ELSE Ok(r)

FraudNameMismatch(claim_data, r) ==
    LET claimant_name == GetOrEmpty(claim_data, "claimant_name")
        policy_holder == GetOrEmpty(claim_data, "policy_holder_name")
    IN  IF ~Truthy(claimant_name) \/ ~Truthy(policy_holder) THEN Ok(r)
        ELSE IF ~IsStr(claimant_name) THEN Raise(r, NoAttr(claimant_name, "lower"))
        ELSE IF ~IsStr(policy_holder) THEN Raise(r, NoAttr(policy_holder, "lower"))
        ELSE IF Lower(claimant_name.s) # Lower(policy_holder.s)
        THEN Ok(add_fraud_indicator(r, "name_mismatch", "low",
                    Details("Claimant name differs from policy holder name", 0, "", <<>>)))
        ELSE Ok(r)

FraudVague(claim_data, r) ==
    LET incident_description == GetOrEmpty(claim_data, "incident_description")
        found == FirstKeyword(vague_keywords, Lower(incident_description.s), 1)
    IN  IF ~Truthy(incident_description) THEN Ok(r)
        ELSE IF ~IsStr(incident_description)
        THEN Raise(r, NoAttr(incident_description, "lower"))
        ELSE IF found # <<>>
        THEN Ok(add_fraud_indicator(r, "vague_description", "low",
                    Details("Incident description contains vague language", 0, found[1], <<>>)))
        ELSE Ok(r)

\* The round-number test without its floor of 5000.
FraudRoundNumber_no_floor(claim_data, r) ==
    LET claim_amount == Get(claim_data, "claim_amount")
        amount == ToFloat(claim_amount)
    IN  IF Truthy(claim_amount) /\ amount.ok /\ amount.v % RoundUnit = 0
        THEN add_fraud_indicator(r, "round_number", "low",
                 Details("Claim amount is a round number", amount.v, "", <<>>))
        ELSE r

FraudRoundNumber(claim_data, r) ==
    LET claim_amount == Get(claim_data, "claim_amount")
        amount == ToFloat(claim_amount)
    IN  IF /\ Truthy(claim_amount)
           /\ amount.ok
           /\ amount.v % RoundUnit = 0
           /\ amount.v >= RoundMinimum
        THEN add_fraud_indicator(r, "round_number", "low",
                 Details("Claim amount is a round number", amount.v, "", <<>>))
        ELSE r

MinMissingCritical == 2

FraudMissing(claim_data, r) ==
    LET missing_critical == SelectSeq(critical_fields, LAMBDA f : ~Truthy(Get(claim_data, f)))
    IN  IF Len(missing_critical) >= MinMissingCritical
        THEN add_fraud_indicator(r, "missing_information", "medium",
                 Details("Multiple critical fields missing", 0, "", missing_critical))
        ELSE r

_detect_fraud_indicators(claim_data, r) ==
    LET Vague(x) == FraudVague(claim_data, x)
        RoundAndMissing(x) == Ok(FraudMissing(claim_data, FraudRoundNumber(claim_data, x)))
    IN  Then(Then(FraudNameMismatch(claim_data, FraudHighValue(claim_data, r)), Vague),
             RoundAndMissing)

(***************************************************************************)
(* _assess_risk and _get_recommended_action                                *)
(***************************************************************************)
\* The bands with their lower ends included.
_get_recommended_action_inclusive(risk_score) ==
    IF ~FGt(F0_8, risk_score) THEN "Reject or require extensive documentation"
    ELSE IF ~FGt(F0_6, risk_score) THEN "Require manual review and additional verification"
    ELSE IF ~FGt(F0_3, risk_score) THEN "Standard processing with monitoring"
    ELSE "Standard processing"

_get_recommended_action(risk_score) ==
    IF FGt(risk_score, F0_8) THEN "Reject or require extensive documentation"
    ELSE IF FGt(risk_score, F0_6) THEN "Require manual review and additional verification"
    ELSE IF FGt(risk_score, F0_3) THEN "Standard processing with monitoring"
    ELSE "Standard processing"

\* The bands with 0.3 itself already "medium".
overall_risk_inclusive(risk_score) ==
    IF FGt(risk_score, F0_7) THEN "high"
    ELSE IF ~FGt(F0_3, risk_score) THEN "medium"
    ELSE "low"

\* "high" if risk_score > 0.7 else "medium" if risk_score > 0.3 else "low"
overall_risk(risk_score) ==
    IF FGt(risk_score, F0_7) THEN "high"
    ELSE IF FGt(risk_score, F0_3) THEN "medium"
    ELSE "low"

\* A step of the assessment: the tags so far and the score so far.
RiskHighValue(claim_data, a) ==
    LET claim_amount == Get(claim_data, "claim_amount")
        amount == ToFloat(claim_amount)
    IN  IF Truthy(claim_amount) /\ amount.ok /\ amount.v > manual_review_threshold
        THEN [risk_factors |-> Append(a.risk_factors, "high_value"),
              risk_score |-> FAdd(a.risk_score, F0_3)]
        ELSE a

\* The fill test with a map that is exactly half filled counted as incomplete.
RiskIncomplete_half_counts(claim_data, a) ==
    LET total_fields == Cardinality(DOMAIN claim_data)
        filled_fields == Cardinality({k \in DOMAIN claim_data :
                             claim_data[k].t # "none" /\ StrNonBlank(claim_data[k])})
    IN  IF total_fields = 0 \/ 2 * filled_fields <= total_fields
        THEN [risk_factors |-> Append(a.risk_factors, "incomplete_information"),
              risk_score |-> FAdd(a.risk_score, F0_2)]
        ELSE a

\* filled_fields / total_fields < 0.5, and 0 when the map is empty.
RiskIncomplete(claim_data, a) ==
    LET total_fields == Cardinality(DOMAIN claim_data)
        filled_fields == Cardinality({k \in DOMAIN claim_data :
                             claim_data[k].t # "none" /\ StrNonBlank(claim_data[k])})
    IN  IF total_fields = 0 \/ 2 * filled_fields < total_fields
        THEN [risk_factors |-> Append(a.risk_factors, "incomplete_information"),
              risk_score |-> FAdd(a.risk_score, F0_2)]
        ELSE a

NewVehicleAge == 2

RiskNewVehicle(claim_data, a, current_year) ==
    LET vehicle_year == Get(claim_data, "vehicle_year")
        year == ToInt(vehicle_year)
    IN  IF Truthy(vehicle_year) /\ year.ok /\ year.v >= current_year - NewVehicleAge
        THEN [risk_factors |-> Append(a.risk_factors, "new_vehicle"),
              risk_score |-> FAdd(a.risk_score, F0_1)]
        ELSE a

RiskWeekend(claim_data, a) ==
    IF IsWeekendISO(Get(claim_data, "incident_date"))
    THEN [risk_factors |-> Append(a.risk_factors, "weekend_incident"),
          risk_score |-> FAdd(a.risk_score, F0_05)]
    ELSE a

\* The tags and the score before the cap.
RiskAccumulate(claim_data, r, current_year) ==
    RiskWeekend(claim_data,
        RiskNewVehicle(claim_data,
            RiskIncomplete(claim_data,
                RiskHighValue(claim_data,
                    [risk_factors |-> <<>>, risk_score |-> r.risk_score])),
            current_year))

\* The cap left out.
CapRisk_none(risk_score) == risk_score

\* result.risk_score = min(result.risk_score, 1.0)
CapRisk(risk_score) == FMin(risk_score, F1_0)

_assess_risk(claim_data, r, current_year) ==
    LET a == RiskAccumulate(claim_data, r, current_year)
        capped == CapRisk(a.risk_score)
    IN  Ok([r EXCEPT
              !.risk_score = capped,
              !.corrections = DictSet(@, "risk_assessment",
                  [original |-> NoneV,
                   corrected |-> [risk_factors |-> a.risk_factors,
                                  overall_risk |-> overall_risk(capped),
                                  recommended_action |-> _get_recommended_action(capped)]])])

(***************************************************************************)
(* The inputs: a field map and the day of the run.  They range over the    *)
(* maps that differ from a well-formed claim (the four required fields, or *)
(* all fourteen) in at most MaxEdits places; an edit removes a key, gives  *)
(* it another value, or moves the day of the run.                          *)
(***************************************************************************)
MaxEdits == 2

Repeat(c, n) == [i \in 1..n |-> c]

MinimalClaim ==
    [claimant_name |-> StrV(<<"J","o","h","n"," ","D","o","e">>),
     incident_date |-> StrV(<<"2","0","2","4","-","0","1","-","1","5">>),
     claim_amount |-> FloatV(50000),
     incident_description |-> StrV(<<"R","e","a","r","-","e","n","d","e","d"," ","a","t"," ","a"," ","l","i","g","h","t">>)]

FullClaim ==
    [claimant_name |-> StrV(<<"J","o","h","n"," ","D","o","e">>),
     claimant_email |-> StrV(<<"j","o","h","n","@","e","x","a","m","p","l","e",".","c","o","m">>),
     claimant_phone |-> StrV(<<"(","2","1","2",")"," ","5","5","5","-","1","2","3","4">>),
     policy_holder_name |-> StrV(<<"J","o","h","n"," ","D","o","e">>),
     policy_number |-> StrV(<<"P","O","L","-","1","2","3","4","5">>),
     insurance_company |-> StrV(<<"S","t","a","t","e"," ","F","a","r","m">>),
     incident_date |-> StrV(<<"2","0","2","4","-","0","1","-","1","5">>),
     incident_location |-> StrV(<<"M","a","i","n"," ","S","t","r","e","e","t">>),
     incident_description |-> StrV(<<"R","e","a","r","-","e","n","d","e","d"," ","a","t"," ","a"," ","l","i","g","h","t">>),
     vehicle_year |-> IntV(2020),
     vehicle_vin |-> StrV(<<"1","H","G","B","H","4","1","J","X","M","N","1","0","9","1","8","6">>),
     license_plate |-> StrV(<<"A","B","C","1","2","3">>),
     claim_amount |-> FloatV(50000),
     estimated_damage_amount |-> FloatV(45000)]

Fields == DOMAIN FullClaim

BaseToday == [y |-> 2026, m |-> 11, d |-> 3]
\* The day before the incident date of the well-formed claims.
EarlyToday == [y |-> 2024, m |-> 1, d |-> 14]

Pool(field) ==
    CASE field = "claimant_name" ->
        {StrV(<<"A","l"," ","R","o","e">>),
         StrV(<<"A">>),
         StrV(<<"J","0","h","n"," ","D","o","e">>),
         StrV(<<" "," "," ">>),
         StrV(<<>>),
         NoneV,
         IntV(12345),
         StrV(Repeat("a", 101))}
      [] field = "claimant_email" ->
        {StrV(<<"J","o","h","n","@","E","x","a","m","p","l","e",".","c","o","m">>),
         StrV(<<"i","n","v","a","l","i","d","-","e","m","a","i","l">>),
         StrV(<<"j","o","h","n","@","n","o","w","h","e","r","e",".","i","n","v","a","l","i","d">>)}
      [] field = "claimant_phone" ->
        {StrV(<<"2","1","2","-","5","5","5","-","1","2","3","4">>),
         StrV(<<"1","2","3","4","5">>),
         StrV(<<"c","a","l","l"," ","m","e">>)}
      [] field = "policy_holder_name" ->
        {StrV(<<"J","O","H","N"," ","D","O","E">>),
         StrV(<<"J","a","n","e"," ","R","o","e">>)}
      [] field = "policy_number" ->
        {StrV(<<"P","1">>),
         StrV(<<"P","O","L","#","1","2","3","4","5">>),
         IntV(12345)}
      [] field = "insurance_company" ->
        {StrV(<<"g","e","i","c","o"," ","d","i","r","e","c","t">>),
         StrV(<<"A","c","m","e"," ","M","u","t","u","a","l">>)}
      [] field = "incident_date" ->
        {StrV(<<"2","0","2","4","-","0","1","-","1","3">>),
         StrV(<<"0","1","/","0","2","/","2","0","2","4">>),
         StrV(<<"2","0","3","0","-","0","1","-","0","1">>),
         StrV(<<"2","0","1","9","-","0","6","-","0","5">>),
         StrV(<<"s","o","m","e","d","a","y">>),
         IntV(20240115)}
      [] field = "incident_location" ->
        {StrV(<<"M","a","l","l"," ","p","a","r","k","i","n","g"," ","l","o","t">>),
         StrV(<<"E","l","m"," ","S","t","r","e","e","t">>)}
      [] field = "incident_description" ->
        {StrV(<<"H","e"," ","s","u","d","d","e","n","l","y"," ","b","r","a","k","e","d">>),
         StrV(<<"C","r","a","s","h">>),
         StrV(<<" "," ">>)}
      [] field = "vehicle_year" ->
        {IntV(2026),
         IntV(1850),
         IntV(1970),
         StrV(<<"2","0","x","0">>)}
      [] field = "vehicle_vin" ->
        {StrV(<<"1","H","G","B","H","4","1","J","X","M","N","1","0","9","8","7","O">>),
         StrV(<<"1","h","g","b","h","4","1","j","x","m","n","1","0","9","8","7","o">>),
         StrV(<<"Q","X","1">>),
         StrV(<<"1","H","G","B","H","4","1","J","X">>)}
      [] field = "license_plate" ->
        {StrV(<<"A">>)}
      [] field = "claim_amount" ->
        {FloatV(-10000),
         IntV(0),
         IntV(10000),
         IntV(10500),
         IntV(4000),
         FloatV(6000000),
         FloatV(12000000),
         StrV(<<"a","b","c">>),
         StrV(<<"1","0","0","0","0">>),
         NoneV}
      [] field = "estimated_damage_amount" ->
        {FloatV(10000),
         IntV(0),
         StrV(<<"n","/","a">>)}

Remove(d, key) == [k \in DOMAIN d \ {key} |-> d[k]]

\* The edits: a key set to a value of its pool, a key removed, the day moved.
Edits ==
    UNION {{[kind |-> "set", field |-> f, value |-> v] : v \in Pool(f)} : f \in Fields}
    \cup {[kind |-> "remove", field |-> f, value |-> NoneV] : f \in Fields}
    \cup {[kind |-> "today", field |-> "", value |-> NoneV]}

Apply(input, edit) ==
    CASE edit.kind = "set" ->
            [claim_data |-> DictSet(input.claim_data, edit.field, edit.value),
             today |-> input.today]
      [] edit.kind = "remove" ->
            [claim_data |-> Remove(input.claim_data, edit.field), today |-> input.today]
      [] OTHER -> [claim_data |-> input.claim_data, today |-> EarlyToday]

RECURSIVE Inputs(_)
Inputs(n) ==
    IF n = 0
    THEN {[claim_data |-> b, today |-> BaseToday] : b \in {MinimalClaim, FullClaim}}
    ELSE {Apply(i, e) : i \in Inputs(n - 1), e \in Edits} \cup Inputs(n - 1)

InputSet == Inputs(MaxEdits)

(***************************************************************************)
(* The state of one validate_claim call and of the caller that serialises  *)
(* the result it returns.                                                  *)
(***************************************************************************)
VARIABLES
    claim_data,    \* the argument of validate_claim
    today,         \* date.today() / datetime.now() during the call
    pc,            \* the stage validate_claim runs next; "returned"; "raised"
    result,        \* the ValidationResult the call builds
    failed,        \* the stage whose exception the except clause caught, or ""
    now,           \* the clock datetime.now() reads in to_dict
    dicts,         \* the dictionaries to_dict has returned so far
    calls,         \* the validate_claim calls in progress on the shared instance
    heap,          \* the ValidationResult objects those calls allocated
    db,            \* the claims table the endpoints of main.py read and write
    later          \* the additions made to the result after it was serialised

vars == <<claim_data, today, pc, result, failed, now, dicts, calls, heap, db, later>>

\* The to_dict calls the caller makes.
MaxDicts == 2

Init ==
    /\ \E i \in InputSet :
          /\ claim_data = i.claim_data
          /\ today = i.today
    /\ pc = "required"
    /\ result = ValidationResult
    /\ failed = ""
    /\ now = 0
    /\ dicts = <<>>
    /\ calls = <<>>
    /\ heap = <<>>
    /\ db = <<>>
    /\ later = 0

\* An except clause that answers with a fresh result.
ExceptClause_fresh(out) ==
    [result |-> add_error(ValidationResult, "validation_process",
                          "Validation failed: " \o out.exc),
     pc |-> "returned"]

\* except Exception as e: result.add_error("validation_process", ...); return result
ExceptClause(out) ==
    [result |-> add_error(out.r, "validation_process", "Validation failed: " \o out.exc),
     pc |-> "returned"]

\* One statement of the try block: the sub-validator's effect on the accumulator,
\* and where control goes.
Stage(name, out, next) ==
    /\ pc = name
    /\ IF out.exc = ""
       THEN /\ result' = out.r
            /\ pc' = next
            /\ failed' = failed
       ELSE /\ result' = ExceptClause(out).result
            /\ pc' = ExceptClause(out).pc
            /\ failed' = name
    /\ UNCHANGED <<claim_data, today, now, dicts, calls, heap, db, later>>

RequiredFields ==
    Stage("required", _validate_required_fields(claim_data, result), "personal")

PersonalInformation ==
    Stage("personal", _validate_personal_information(claim_data, result), "policy")

PolicyInformation ==
    Stage("policy", _validate_policy_information(claim_data, result), "incident")

IncidentInformation ==
    Stage("incident", _validate_incident_information(claim_data, result, today), "vehicle")

VehicleInformation ==
    Stage("vehicle", _validate_vehicle_information(claim_data, result, today.y), "financial")

FinancialInformation ==
    Stage("financial", _validate_financial_information(claim_data, result), "business")

\* The business rules passing control to the risk assessment at once.
BusinessRules_then_risk ==
    Stage("business", _validate_business_rules(claim_data, result), "risk")

BusinessRules ==
    Stage("business", _validate_business_rules(claim_data, result), "fraud")

DetectFraudIndicators ==
    Stage("fraud", _detect_fraud_indicators(claim_data, result), "risk")

AssessRisk ==
    Stage("risk", _assess_risk(claim_data, result, today.y), "returned")

\* A to_dict that also records the time of the call in the object.
to_dict_stamping(self, timestamp) ==
    [dict |-> [is_valid |-> self.is_valid,
               errors |-> "self.errors",
               warnings |-> "self.warnings",
               corrections |-> "self.corrections",
               risk_score |-> FMin(self.risk_score, F1_0),
               fraud_indicators |-> "self.fraud_indicators",
               validation_timestamp |-> timestamp],
     self |-> add_warning(self, "validation_timestamp", ToString(timestamp))]

\* ValidationResult.to_dict: the dictionary it returns and the object it leaves.
\* The lists and the corrections map are put in the dictionary as they are (the
\* same objects); is_valid, risk_score and the timestamp are values.
to_dict(self, timestamp) ==
    [dict |-> [is_valid |-> self.is_valid,
               errors |-> "self.errors",
               warnings |-> "self.warnings",
               corrections |-> "self.corrections",
               risk_score |-> FMin(self.risk_score, F1_0),
               fraud_indicators |-> "self.fraud_indicators",
               validation_timestamp |-> timestamp],
     self |-> self]

\* The caller serialises the returned result; every call reads a later time.
ToDict ==
    /\ pc = "returned"
    /\ Len(dicts) < MaxDicts
    /\ now' = now + 1
    /\ dicts' = Append(dicts, to_dict(result, now).dict)
    /\ result' = to_dict(result, now).self
    /\ UNCHANGED <<claim_data, today, pc, failed, calls, heap, db, later>>

Next ==
    \/ RequiredFields
    \/ PersonalInformation
    \/ PolicyInformation
    \/ IncidentInformation
    \/ VehicleInformation
    \/ FinancialInformation
    \/ BusinessRules
    \/ DetectFraudIndicators
    \/ AssessRisk
    \/ ToDict

Spec == Init /\ [][Next]_vars

(***************************************************************************)
(* Vocabulary of the properties.                                           *)
(***************************************************************************)
StageOrder ==
    <<"required", "personal", "policy", "incident", "vehicle", "financial", "business",
      "fraud", "risk">>

StageIndex(name) == CHOOSE i \in DOMAIN StageOrder : StageOrder[i] = name

\* The stage ran to its end without raising.
Completed(stage) ==
    IF pc = "returned" THEN failed = "" \/ StageIndex(failed) > StageIndex(stage)
    ELSE pc \in Range(StageOrder) /\ StageIndex(pc) > StageIndex(stage)

\* The stage was entered and has ended, normally or by raising.
Ended(stage) ==
    IF pc = "returned" THEN failed = "" \/ StageIndex(failed) >= StageIndex(stage)
    ELSE pc \in Range(StageOrder) /\ StageIndex(pc) > StageIndex(stage)

ErrorsOn(field) == SelectSeq(result.errors, LAMBDA e : e.field = field)
WarningsOn(field) == SelectSeq(result.warnings, LAMBDA w : w.field = field)
HasError(field) == Len(ErrorsOn(field)) > 0
HasIndicator(name) == \E i \in DOMAIN result.fraud_indicators : result.fraud_indicators[i].indicator = name

IsPrefix(s, u) == Len(s) <= Len(u) /\ SubSeq(u, 1, Len(s)) = s

\* Every entry of corrections map c is an entry of d.
SubDict(c, d) == DOMAIN c \subseteq DOMAIN d /\ \A k \in DOMAIN c : d[k] = c[k]

FLe(x, w) == ~FGt(x, w)

\* The risk_assessment record _assess_risk stored.
Assessment == result.corrections["risk_assessment"].corrected

(***************************************************************************)
(* C1.  is_valid starts true, becomes false at the first add_error and is  *)
(* never set back: in every state of the run is_valid holds exactly when   *)
(* the errors list is empty, no step makes an invalid outcome valid again, *)
(* and no step removes an error.                                           *)
(***************************************************************************)
C1_ValidIffNoErrors ==
    /\ [](result.is_valid <=> result.errors = <<>>)
    /\ [][/\ ~result.is_valid => ~result'.is_valid
          /\ IsPrefix(result.errors, result'.errors)]_vars

\* An invalid outcome on which later stages went on to add warnings and the
\* risk assessment.
C1_Witness ==
    /\ pc = "returned"
    /\ failed = ""
    /\ ~result.is_valid
    /\ HasError("claimant_name")
    /\ Len(result.warnings) > 0
    /\ "risk_assessment" \in DOMAIN result.corrections

(***************************************************************************)
(* C2.  The final risk_score lies in [0.0, 1.0]: on the outcome once the   *)
(* risk assessment has run, and in every dictionary to_dict returns, even  *)
(* when the contributions add up to more than 1.0.                         *)
(***************************************************************************)
C2_RiskScoreClamped ==
    /\ Completed("risk") => FLe(F0_0, result.risk_score) /\ FLe(result.risk_score, F1_0)
    /\ \A i \in DOMAIN dicts :
          FLe(F0_0, dicts[i].risk_score) /\ FLe(dicts[i].risk_score, F1_0)

RECURSIVE WeightSum(_, _)
WeightSum(indicators, i) ==
    IF i = 0 THEN F0_0
    ELSE FAdd(WeightSum(indicators, i - 1),
              CASE indicators[i].severity = "medium" -> F0_3
                [] indicators[i].severity = "high" -> F0_5
                [] OTHER -> F0_1)

\* The score the risk assessment reached before its cap.
RawScore ==
    RiskAccumulate(claim_data,
                   [risk_score |-> WeightSum(result.fraud_indicators,
                                             Len(result.fraud_indicators))],
                   today.y).risk_score

\* The contributions exceeded 1.0 and the outcome, serialised, carries 1.0.
C2_Witness ==
    /\ Completed("risk")
    /\ FGt(RawScore, F1_0)
    /\ result.risk_score = F1_0
    /\ Len(dicts) > 0
    /\ dicts[1].risk_score = F1_0

(***************************************************************************)
(* C3.  validate_claim never raises.  When a sub-validator raises, the run *)
(* ends there (the later stages do not run), exactly one error with field  *)
(* "validation_process" is appended, is_valid is false, and every error,   *)
(* warning, correction and fraud indicator accumulated before the failure  *)
(* is still in the outcome.                                                *)
(***************************************************************************)
C3_ExceptionContained ==
    /\ [](/\ pc # "raised"
          /\ Len(ErrorsOn("validation_process")) = IF failed = "" THEN 0 ELSE 1
          /\ failed # "" => pc = "returned" /\ ~result.is_valid)
    /\ [][/\ failed' # failed =>
               /\ pc' = "returned"
               /\ IsPrefix(result.errors, result'.errors)
               /\ result'.errors[Len(result'.errors)].field = "validation_process"
               /\ IsPrefix(result.warnings, result'.warnings)
               /\ SubDict(result.corrections, result'.corrections)
               /\ IsPrefix(result.fraud_indicators, result'.fraud_indicators)
          /\ pc = "returned" => pc' = "returned" /\ result' = result]_vars

\* The policy stage raised on a policy_number that is no string, after the
\* personal stage had recorded an error.
C3_Witness ==
    /\ failed = "policy"
    /\ Get(claim_data, "policy_number").t = "int"
    /\ Len(result.errors) >= 2
    /\ result.errors[1].field = "claimant_name"

(***************************************************************************)
(* C4.  The required-field stage.                                          *)
(***************************************************************************)
\* The field is absent, None, "" or whitespace only.
Blank(field) ==
    \/ field \notin DOMAIN claim_data
    \/ claim_data[field].t = "none"
    \/ /\ claim_data[field].t = "str"
       /\ \A i \in DOMAIN claim_data[field].s : claim_data[field].s[i] \in Whitespace

\* C4: a required field that is absent, null, empty or whitespace-only gets an
\* error of its own, and the outcome is invalid.
C4_RequiredFieldErrors ==
    Ended("required") =>
        \A i \in DOMAIN required_fields :
            Blank(required_fields[i]) => HasError(required_fields[i]) /\ ~result.is_valid

\* A whitespace-only claimant_name and an absent incident_date, both reported.
C4_Witness ==
    /\ pc = "returned"
    /\ "claimant_name" \in DOMAIN claim_data
    /\ claim_data["claimant_name"].t = "str"
    /\ Len(claim_data["claimant_name"].s) > 0
    /\ Blank("claimant_name")
    /\ "incident_date" \notin DOMAIN claim_data
    /\ HasError("claimant_name")
    /\ HasError("incident_date")

(***************************************************************************)
(* C5.  A claim that holds only the four required fields, all well formed. *)
(***************************************************************************)
\* The map has the four required keys and no other; the name is 2 to 100
\* letters and spaces, the date reads as %Y-%m-%d, is a weekday and is not after
\* the day of the run, the amount is positive and below the manual-review
\* threshold, the description is a non-blank text.
MinimalWellFormed ==
    /\ DOMAIN claim_data = Range(required_fields)
    /\ IsStr(claim_data["claimant_name"])
    /\ Len(claim_data["claimant_name"].s) \in 2..100
    /\ \A i \in DOMAIN claim_data["claimant_name"].s :
          claim_data["claimant_name"].s[i] \in UpperSet \cup LowerSet \cup {" "}
    /\ ~Blank("claimant_name")
    /\ IsStr(claim_data["incident_date"])
    /\ StrptimeISO(claim_data["incident_date"].s).ok
    /\ Weekday(StrptimeISO(claim_data["incident_date"].s)) < 5
    /\ Ordinal(StrptimeISO(claim_data["incident_date"].s)) <= Ordinal(today)
    /\ ToFloat(claim_data["claim_amount"]).ok
    /\ ToFloat(claim_data["claim_amount"]).v > 0
    /\ ToFloat(claim_data["claim_amount"]).v < manual_review_threshold
    /\ IsStr(claim_data["incident_description"])
    /\ ~Blank("incident_description")

\* The description holds one of the vague phrases.
VagueText == FirstKeyword(vague_keywords, Lower(claim_data["incident_description"].s), 1) # <<>>

\* The amount is a whole number of thousands, 5000 or more.
RoundAmount ==
    /\ ToFloat(claim_data["claim_amount"]).v % RoundUnit = 0
    /\ ToFloat(claim_data["claim_amount"]).v >= RoundMinimum

\* C5 as stated: every minimal well-formed claim yields zero errors, is valid,
\* has a low risk score (overall_risk "low", a score of at most 0.3) and none of
\* the high_value, incomplete_information, new_vehicle, weekend_incident tags.
C5_MinimalClaimLowRisk ==
    (pc = "returned" /\ MinimalWellFormed) =>
        /\ result.errors = <<>>
        /\ result.is_valid
        /\ Assessment.risk_factors = <<>>
        /\ Assessment.overall_risk = "low"
        /\ FLe(result.risk_score, F0_3)

\* C5, amended: every minimal well-formed claim yields zero errors, is valid and
\* has none of the four risk tags; it always carries the missing_information
\* indicator (its three critical fields are absent), so its score is 0.3 plus 0.1
\* for a vague description plus 0.1 for a round amount of 5000 or more, and it is
\* "low" exactly when neither of these two applies.
C5_MinimalClaimOutcome ==
    (pc = "returned" /\ MinimalWellFormed) =>
        /\ result.errors = <<>>
        /\ result.is_valid
        /\ Assessment.risk_factors = <<>>
        /\ HasIndicator("missing_information")
        /\ HasIndicator("vague_description") <=> VagueText
        /\ HasIndicator("round_number") <=> RoundAmount
        /\ ~HasIndicator("high_value_claim")
        /\ ~HasIndicator("name_mismatch")
        /\ result.risk_score =
              FAdd(FAdd(IF VagueText THEN F0_1 ELSE F0_0, IF RoundAmount THEN F0_1 ELSE F0_0),
                   F0_3)
        /\ Assessment.overall_risk = IF VagueText \/ RoundAmount THEN "medium" ELSE "low"
        /\ Assessment.overall_risk = "low" <=> result.risk_score = F0_3

\* A minimal well-formed claim with a vague description and a round amount:
\* valid, three indicators, "medium".
C5_Witness ==
    /\ pc = "returned"
    /\ MinimalWellFormed
    /\ VagueText
    /\ RoundAmount
    /\ result.is_valid
    /\ Len(result.fraud_indicators) = 3
    /\ Assessment.overall_risk = "medium"

(***************************************************************************)
(* C6.  The financial stage's verdict on a present claim_amount.           *)
(***************************************************************************)
CountOn(entries, field) == Len(SelectSeq(entries, LAMBDA e : e.field = field))

VinWithIOQ ==
    /\ IsStr(Get(claim_data, "vehicle_vin"))
    /\ \E i \in DOMAIN Get(claim_data, "vehicle_vin").s :
          Get(claim_data, "vehicle_vin").s[i] \in {"I", "O", "Q", "i", "o", "q"}

RoundNumberEntries ==
    SelectSeq(result.fraud_indicators, LAMBDA f : f.indicator = "round_number")

\* C8: in a run where no stage raised, the outcome holds a round_number
\* indicator exactly when float() accepts claim_amount and the value is a
\* multiple of 1000 that is at least 5000, and the indicator's severity is low;
\* 10000 has it, 10500 and 4000 have not.
C8_RoundNumberIndicator ==
    (pc = "returned" /\ failed = "") =>
        LET amount == ToFloat(Get(claim_data, "claim_amount"))
        IN  /\ Len(RoundNumberEntries) > 0 <=>
                  (amount.ok /\ amount.v % (1000 * 100) = 0 /\ amount.v >= 5000 * 100)
            /\ \A i \in DOMAIN RoundNumberEntries : RoundNumberEntries[i].severity = "low"
            /\ Get(claim_data, "claim_amount") = IntV(10000) => Len(RoundNumberEntries) = 1
            /\ Get(claim_data, "claim_amount") \in {IntV(10500), IntV(4000)} =>
                  RoundNumberEntries = <<>>

\* A run on claim_amount 10000 in which no stage raised: the indicator is there.
C8_Witness ==
    /\ pc = "returned"
    /\ failed = ""
    /\ Get(claim_data, "claim_amount") = IntV(10000)
    /\ Len(RoundNumberEntries) = 1
    /\ RoundNumberEntries[1].severity = "low"

(***************************************************************************)
(* C9.  The verdict on claimant_email when nothing else is wrong.          *)
(***************************************************************************)
\* No stage raised and no field other than claimant_email has an error.
OtherFieldsValid ==
    /\ pc = "returned"
    /\ failed = ""
    /\ \A i \in DOMAIN result.errors : result.errors[i].field = "claimant_email"

C10_ToDictRepeatable ==
    /\ [](\A i, j \in DOMAIN dicts :
             [dicts[i] EXCEPT !.validation_timestamp = 0]
                 = [dicts[j] EXCEPT !.validation_timestamp = 0])
    /\ [](\A i \in DOMAIN dicts :
             /\ dicts[i].is_valid = result.is_valid
             /\ dicts[i].risk_score = FMin(result.risk_score, F1_0))
    /\ [][dicts' # dicts => result' = result]_vars

\* Two dictionaries of an outcome that has errors and indicators, taken at
\* different times.
C10_Witness ==
    /\ Len(dicts) = 2
    /\ dicts[1].validation_timestamp # dicts[2].validation_timestamp
    /\ ~dicts[1].is_valid
    /\ ~dicts[2].is_valid
    /\ result.errors # <<>>
    /\ result.fraud_indicators # <<>>

(***************************************************************************)
(* Several validate_claim calls in progress at once on the one global      *)
(* claim_validator.  A call's `result` is a reference to a ValidationResult*)
(* object of the heap; the calls interleave between any two statements of  *)
(* the try block.  Every call reads the clock on the day it runs.          *)
(***************************************************************************)
MaxCalls == 2

Calls == 1..MaxCalls

\* The field maps the concurrent callers pass.
ConcurrentClaims ==
    {DictSet(MinimalClaim, "incident_description",
             StrV(<<"H","e"," ","s","u","d","d","e","n","l","y"," ","b","r","a","k","e","d">>)),
     DictSet(DictSet(FullClaim, "claimant_name", StrV(<<"A">>)), "claim_amount", FloatV(6000000)),
     DictSet(DictSet(FullClaim, "claimant_email", StrV(<<"J","@","e","x","a","m","p","l","e",".","C","O","M">>)),
             "policy_number", IntV(12345))}

\* The accumulator kept in the instance and handed to every call.
NewResult_shared(objects) ==
    IF objects = <<>> THEN [heap |-> <<ValidationResult>>, ref |-> 1]
    ELSE [heap |-> objects, ref |-> 1]

\* A new object that starts from the score the previous one reached.
NewResult_carrying(objects) ==
    [heap |-> Append(objects,
                     IF objects = <<>> THEN ValidationResult
                     ELSE [ValidationResult EXCEPT
                              !.risk_score = objects[Len(objects)].risk_score]),
     ref |-> Len(objects) + 1]

\* result = ValidationResult(): a new object, referred to by the caller alone.
NewResult(objects) == [heap |-> Append(objects, ValidationResult), ref |-> Len(objects) + 1]

\* The statement of the try block that has the given name.
RunStage(name, data, r, day) ==
    CASE name = "required" -> _validate_required_fields(data, r)
      [] name = "personal" -> _validate_personal_information(data, r)
      [] name = "policy" -> _validate_policy_information(data, r)
      [] name = "incident" -> _validate_incident_information(data, r, day)
      [] name = "vehicle" -> _validate_vehicle_information(data, r, day.y)
      [] name = "financial" -> _validate_financial_information(data, r)
      [] name = "business" -> _validate_business_rules(data, r)
      [] name = "fraud" -> _detect_fraud_indicators(data, r)
      [] OTHER -> _assess_risk(data, r, day.y)

NextStage(name) ==
    IF StageIndex(name) = Len(StageOrder) THEN "returned" ELSE StageOrder[StageIndex(name) + 1]

\* validate_claim run on its own, from the i-th statement of the try block on.
RECURSIVE RunFrom(_, _, _, _)
RunFrom(i, data, r, day) ==
    IF i > Len(StageOrder) THEN r
    ELSE IF RunStage(StageOrder[i], data, r, day).exc = ""
    THEN RunFrom(i + 1, data, RunStage(StageOrder[i], data, r, day).r, day)
    ELSE ExceptClause(RunStage(StageOrder[i], data, r, day)).result

\* The outcome of one validate_claim call run alone on that day.
validate_claim(data, day) == RunFrom(1, data, ValidationResult, day)

ConcurrentInit ==
    /\ calls \in [Calls -> {[claim_data |-> d, today |-> BaseToday, pc |-> "start", ref |-> 0,
                             failed |-> ""] : d \in ConcurrentClaims}]
    /\ heap = <<>>
    /\ claim_data = EmptyDict
    /\ today = BaseToday
    /\ pc = "idle"
    /\ result = ValidationResult
    /\ failed = ""
    /\ now = 0
    /\ dicts = <<>>
    /\ db = <<>>
    /\ later = 0

\* Call c enters validate_claim: result = ValidationResult().
Enter(c) ==
    /\ calls[c].pc = "start"
    /\ heap' = NewResult(heap).heap
    /\ calls' = [calls EXCEPT ![c].pc = "required", ![c].ref = NewResult(heap).ref]
    /\ UNCHANGED <<claim_data, today, pc, result, failed, now, dicts, db, later>>

\* Call c runs its next statement on the object its `result` refers to.
CallStage(c) ==
    /\ calls[c].pc \in Range(StageOrder)
    /\ IF RunStage(calls[c].pc, calls[c].claim_data, heap[calls[c].ref], calls[c].today).exc = ""
       THEN /\ heap' = [heap EXCEPT ![calls[c].ref] =
                           RunStage(calls[c].pc, calls[c].claim_data, @, calls[c].today).r]
            /\ calls' = [calls EXCEPT ![c].pc = NextStage(@)]
       ELSE /\ heap' = [heap EXCEPT ![calls[c].ref] =
                           ExceptClause(RunStage(calls[c].pc, calls[c].claim_data, @,
                                                 calls[c].today)).result]
            /\ calls' = [calls EXCEPT ![c].pc = "returned", ![c].failed = calls[c].pc]
    /\ UNCHANGED <<claim_data, today, pc, result, failed, now, dicts, db, later>>

ConcurrentNext == \E c \in Calls : Enter(c) \/ CallStage(c)

ConcurrentSpec == ConcurrentInit /\ [][ConcurrentNext]_vars

\* The object call c's `result` refers to.
ResultOf(c) == heap[calls[c].ref]

(***************************************************************************)
(* C11.  Calls that interleave on the shared instance do not see each      *)
(* other.                                                                  *)
(***************************************************************************)
\* C11: in every interleaving of the calls, each call has an accumulator of its
\* own (no two calls refer to the same object), and the outcome a call returns
\* is exactly the outcome validate_claim gives for its input when run alone.
C11_CallsIsolated ==
    /\ \A c, d \in Calls :
          (c # d /\ calls[c].ref # 0 /\ calls[d].ref # 0) => calls[c].ref # calls[d].ref
    /\ \A c \in Calls :
          calls[c].pc = "returned" =>
              ResultOf(c) = validate_claim(calls[c].claim_data, calls[c].today)

\* Call 1 entered first and is still in its financial stage, with errors and a
\* warning recorded; call 2 entered after it and has already returned a valid
\* outcome with fraud indicators of its own.
C11_Witness ==
    /\ calls[1].ref = 1
    /\ calls[2].ref = 2
    /\ calls[1].pc = "financial"
    /\ calls[2].pc = "returned"
    /\ ResultOf(1).errors # <<>>
    /\ ResultOf(2).is_valid
    /\ ResultOf(2).fraud_indicators # <<>>
    /\ ResultOf(1).fraud_indicators = <<>>

(***************************************************************************)
(* The same field map validated again and again, one run after the other,  *)
(* each run on a day of its own.                                           *)
(***************************************************************************)
RepeatedInit ==
    /\ \E i \in Inputs(1) : \E days \in [Calls -> {BaseToday, EarlyToday}] :
          calls = [c \in Calls |-> [claim_data |-> i.claim_data, today |-> days[c],
                                    pc |-> "start", ref |-> 0, failed |-> ""]]
    /\ heap = <<>>
    /\ claim_data = EmptyDict
    /\ today = BaseToday
    /\ pc = "idle"
    /\ result = ValidationResult
    /\ failed = ""
    /\ now = 0
    /\ dicts = <<>>
    /\ db = <<>>
    /\ later = 0

\* A run starts when the runs before it have returned.
RepeatedNext ==
    \E c \in Calls :
        /\ \A b \in 1..(c - 1) : calls[b].pc = "returned"
        /\ Enter(c) \/ CallStage(c)

RepeatedSpec == RepeatedInit /\ [][RepeatedNext]_vars

C13_OnlyErrorsInvalidate ==
    /\ LET w == add_warning(result, "claim_amount", "High value claim requires manual review")
       IN  /\ w.is_valid = result.is_valid
           /\ w.errors = result.errors
           /\ Len(w.warnings) = Len(result.warnings) + 1
    /\ LET c == add_correction(result, "incident_date", NoneV, NoneV)
       IN  /\ c.is_valid = result.is_valid
           /\ c.errors = result.errors
           /\ "incident_date" \in DOMAIN c.corrections
    /\ \A severity \in {"low", "medium", "high", "critical"} :
          LET f == add_fraud_indicator(result, "high_value_claim", severity,
                                       Details("", 0, "", <<>>))
          IN  /\ f.is_valid = result.is_valid
              /\ f.errors = result.errors
              /\ Len(f.fraud_indicators) = Len(result.fraud_indicators) + 1
    /\ result.errors = <<>> => result.is_valid

\* A returned outcome with no error that has a warning, four fraud indicators
\* and the highest risk_score there is: it is valid.
C13_Witness ==
    /\ pc = "returned"
    /\ result.errors = <<>>
    /\ result.is_valid
    /\ result.warnings # <<>>
    /\ Len(result.fraud_indicators) >= 4
    /\ result.risk_score = F1_0
    /\ "risk_assessment" \in DOMAIN result.corrections

(***************************************************************************)
(* C14.  What an indicator adds to the score.                              *)
(***************************************************************************)
\* C14: on every outcome the run passes through, add_fraud_indicator appends
\* exactly its one entry and adds 0.1 (low), 0.3 (medium) or 0.5 (high) to
\* risk_score, with no cap, also where the sum passes 1.0; and until the risk
\* assessment has run, so in particular when the fraud stage ends, risk_score is
\* the sum of the weights of the indicators recorded, added in their order.
C14_IndicatorWeights ==
    /\ \A severity \in {"low", "medium", "high"} :
          LET f == add_fraud_indicator(result, "name_mismatch", severity,
                                       Details("", 0, "", <<>>))
          IN  /\ f.fraud_indicators =
                     Append(result.fraud_indicators,
                            [indicator |-> "name_mismatch", severity |-> severity,
                             details |-> Details("", 0, "", <<>>)])
              /\ f.risk_score =
                     FAdd(result.risk_score,
                          CASE severity = "low" -> F0_1
                            [] severity = "medium" -> F0_3
                            [] OTHER -> F0_5)
              /\ FGt(f.risk_score, result.risk_score)
    /\ ~Completed("risk") =>
          result.risk_score = WeightSum(result.fraud_indicators, Len(result.fraud_indicators))

\* The fraud stage has just ended with four indicators (0.3 + 0.1 + 0.1 + 0.3);
\* one more medium indicator would take the score past 1.0.
C14_Witness ==
    /\ pc = "risk"
    /\ Len(result.fraud_indicators) = 4
    /\ result.risk_score = FAdd(FAdd(FAdd(F0_3, F0_1), F0_1), F0_3)
    /\ FGt(add_fraud_indicator(result, "name_mismatch", "medium",
                               Details("", 0, "", <<>>)).risk_score, F1_0)

(***************************************************************************)
(* C15.  The recommended action and the bands of the score.                *)
(***************************************************************************)
\* The four bands, mildest first: score <= 0.3, 0.3 < score <= 0.6,
\* 0.6 < score <= 0.8, score > 0.8.
InBand(score, band) ==
    CASE band = 1 -> FLe(score, F0_3)
      [] band = 2 -> FGt(score, F0_3) /\ FLe(score, F0_6)
      [] band = 3 -> FGt(score, F0_6) /\ FLe(score, F0_8)
      [] OTHER -> FGt(score, F0_8)

BandActions ==
    <<"Standard processing",
      "Standard processing with monitoring",
      "Require manual review and additional verification",
      "Reject or require extensive documentation">>

ActionRank(action) == CHOOSE band \in DOMAIN BandActions : BandActions[band] = action

\* Scores on, just above and between the band edges.
ScoreSamples ==
    {F0_0, F0_1, F0_2, F0_3, FAdd(FAdd(F0_1, F0_1), F0_1), F0_5, F0_6, FAdd(F0_5, F0_1),
     FAdd(F0_6, F0_05), F0_7, F0_8, FAdd(F0_7, F0_1), FAdd(F0_8, F0_05), F1_0}

\* C15: once the risk assessment has run, the stored recommended_action is the
\* action of the one band the clamped final risk_score lies in (the score lies in
\* exactly one band), and against every other score the order is kept: a higher
\* score never has a milder action.
C15_ActionBands ==
    Completed("risk") =>
        /\ FLe(result.risk_score, F1_0)
        /\ Cardinality({band \in DOMAIN BandActions : InBand(result.risk_score, band)}) = 1
        /\ \A band \in DOMAIN BandActions :
              InBand(result.risk_score, band) =>
                  Assessment.recommended_action = BandActions[band]
        /\ \A other \in ScoreSamples :
              /\ Cardinality({band \in DOMAIN BandActions : InBand(other, band)}) = 1
              /\ FGt(result.risk_score, other) =>
                    ActionRank(Assessment.recommended_action)
                        >= ActionRank(_get_recommended_action(other))
              /\ FGt(other, result.risk_score) =>
                    ActionRank(_get_recommended_action(other))
                        >= ActionRank(Assessment.recommended_action)

\* A final score of exactly 0.8: it is not above 0.8, and the action is the
\* manual review, not the rejection.
C15_Witness ==
    /\ Completed("risk")
    /\ result.risk_score = F0_8
    /\ Assessment.recommended_action = "Require manual review and additional verification"

(***************************************************************************)
(* Routing: the submit, validate and approve endpoints of main.py on the   *)
(* claims table, and the payment they start.                               *)
(***************************************************************************)
MaxClaims == 1
MaxPayments == 2

\* The fields of ClaimSubmissionRequest; .dict() has them all, None for the
\* optional ones that were not sent.
SubmissionFields ==
    {"claimant_name", "claimant_email", "claimant_phone", "incident_date",
     "incident_location", "incident_description", "claim_amount", "policy_number"}

SubmissionBase == [k \in SubmissionFields |-> FullClaim[k]]

\* The requests sent to /api/v1/claims/submit: the typed fields hold what the
\* request model admits (strings, a float amount).
SubmittedClaims ==
    {SubmissionBase,
     [k \in SubmissionFields |->
         IF k \in {"claimant_email", "claimant_phone", "incident_location", "policy_number"}
         THEN NoneV ELSE SubmissionBase[k]],
     DictSet(SubmissionBase, "claim_amount", FloatV(100000)),
     DictSet(SubmissionBase, "claim_amount", FloatV(100001)),
     DictSet(SubmissionBase, "claim_amount", FloatV(6000000)),
     DictSet(SubmissionBase, "claim_amount", FloatV(0)),
     DictSet(SubmissionBase, "claimant_name", StrV(<<"A">>)),
     DictSet(SubmissionBase, "claimant_email", StrV(<<"j","o","h","n">>)),
     DictSet(SubmissionBase, "claimant_phone", StrV(<<"1","2","3">>)),
     DictSet(SubmissionBase, "incident_date", StrV(<<"0","1","/","0","2","/","2","0","2","4">>)),
     DictSet(SubmissionBase, "incident_date", StrV(<<"s","o","m","e","d","a","y">>)),
     DictSet(DictSet(SubmissionBase, "incident_description", StrV(<<" ">>)),
             "claim_amount", FloatV(20000000))}

\* The JSON the validation_results column keeps of the dictionary to_dict
\* returned: the lists are written out as they are at the commit.
StoredResults(r, timestamp) ==
    [is_valid |-> to_dict(r, timestamp).dict.is_valid,
     errors |-> r.errors,
     warnings |-> r.warnings,
     corrections |-> r.corrections,
     risk_score |-> to_dict(r, timestamp).dict.risk_score,
     fraud_indicators |-> r.fraud_indicators,
     validation_timestamp |-> timestamp]

RoutingInit ==
    /\ db = <<>>
    /\ later = 0
    /\ calls = <<>>
    /\ heap = <<>>
    /\ claim_data = EmptyDict
    /\ today = BaseToday
    /\ pc = "idle"
    /\ result = ValidationResult
    /\ failed = ""
    /\ now = 0
    /\ dicts = <<>>

\* submit_claim: a Claim row with status SUBMITTED and the request as extracted_data.
SubmitClaim ==
    /\ Len(db) < MaxClaims
    /\ \E claim \in SubmittedClaims :
          db' = Append(db, [status |-> "submitted",
                            claim_amount |-> claim["claim_amount"].n,
                            extracted_data |-> claim,
                            validation_results |-> <<>>,
                            fraud_score |-> <<>>,
                            payment_intents |-> 0,
                            payments |-> <<>>])
    /\ UNCHANGED <<claim_data, today, pc, result, failed, now, dicts, calls, heap, later>>

\* claim.validation_results = validation_result.to_dict();
\* claim.fraud_score = validation_result.risk_score
StoreValidation(row, validation_result, timestamp) ==
    [row EXCEPT !.validation_results = <<StoredResults(validation_result, timestamp)>>,
                !.fraud_score = <<validation_result.risk_score>>]

\* The validate endpoint: runs the validator on the stored extracted_data and
\* stores the dictionary and the score in the row; the status stays.
ValidateClaim(claim_id) ==
    /\ claim_id \in DOMAIN db
    /\ db' = [db EXCEPT ![claim_id] =
                 StoreValidation(@, validate_claim(db[claim_id].extracted_data, today), now)]
    /\ UNCHANGED <<claim_data, today, pc, result, failed, now, dicts, calls, heap, later>>

\* process_claim_payment: a payment intent is created at the processor; when
\* that succeeds a Payment row with status PROCESSING is saved.
process_claim_payment(row, success) ==
    [row EXCEPT !.payment_intents = @ + 1,
                !.payments = IF success
                             THEN Append(@, [amount |-> row.claim_amount,
                                             status |-> "processing"])
                             ELSE @]

\* approve_claim: the status becomes APPROVED, and the payment is started
\* when the amount is within the auto-approve threshold.
ApproveClaim(claim_id) ==
    /\ claim_id \in DOMAIN db
    /\ db[claim_id].payment_intents < MaxPayments
    /\ IF db[claim_id].claim_amount <= auto_approve_threshold
       THEN \E success \in BOOLEAN :
               db' = [db EXCEPT ![claim_id] =
                         process_claim_payment([@ EXCEPT !.status = "approved"], success)]
       ELSE db' = [db EXCEPT ![claim_id].status = "approved"]
    /\ UNCHANGED <<claim_data, today, pc, result, failed, now, dicts, calls, heap, later>>

RoutingNext ==
    \/ SubmitClaim
    \/ \E claim_id \in 1..MaxClaims : ValidateClaim(claim_id)
    \/ \E claim_id \in 1..MaxClaims : ApproveClaim(claim_id)

RoutingSpec == RoutingInit /\ [][RoutingNext]_vars

\* C16: payment processing is initiated only for a claim whose stored
\* validation outcome has is_valid = true; a claim that validated as invalid,
\* or was never validated, has no payment started.
C16_PaymentOnlyWhenValid ==
    \A claim_id \in DOMAIN db :
        db[claim_id].payment_intents > 0 =>
            /\ db[claim_id].validation_results # <<>>
            /\ db[claim_id].validation_results[1].is_valid

\* A claim validated as invalid is approved and has a Payment row.
C16_Witness ==
    \E claim_id \in DOMAIN db :
        /\ db[claim_id].validation_results # <<>>
        /\ ~db[claim_id].validation_results[1].is_valid
        /\ db[claim_id].validation_results[1].errors # <<>>
        /\ db[claim_id].status = "approved"
        /\ db[claim_id].payments # <<>>

(***************************************************************************)
(* The holder of the returned result keeps adding to it after to_dict.     *)
(***************************************************************************)
MaxLater == 2

SnapshotInit ==
    /\ \E i \in Inputs(1) :
          /\ claim_data = i.claim_data
          /\ today = i.today
    /\ pc = "required"
    /\ result = ValidationResult
    /\ failed = ""
    /\ now = 0
    /\ dicts = <<>>
    /\ calls = <<>>
    /\ heap = <<>>
    /\ db = <<>>
    /\ later = 0

\* What a method of ValidationResult called at this point leaves of the object.
LaterCall(method) ==
    CASE method = "add_error" -> add_error(result, "review", "Rejected by the adjuster")
      [] method = "add_warning" -> add_warning(result, "review", "Seen by the adjuster")
      [] method = "add_correction" ->
            add_correction(result, "claimant_name", Get(claim_data, "claimant_name"),
                           StrV(<<"J","o","h","n"," ","D","o","e">>))
      [] OTHER -> add_fraud_indicator(result, "adjuster_flag", "low",
                                      Details("Flagged by the adjuster", 0, "", <<>>))

\* The holder calls one of the four add methods on the result it serialised.
LaterAdd(method) ==
    /\ pc = "returned"
    /\ dicts # <<>>
    /\ later < MaxLater
    /\ result' = LaterCall(method)
    /\ later' = later + 1
    /\ UNCHANGED <<claim_data, today, pc, failed, now, dicts, calls, heap, db>>

SnapshotNext ==
    \/ RequiredFields
    \/ PersonalInformation
    \/ PolicyInformation
    \/ IncidentInformation
    \/ VehicleInformation
    \/ FinancialInformation
    \/ BusinessRules
    \/ DetectFraudIndicators
    \/ AssessRisk
    \/ ToDict
    \/ LaterAdd("add_error")
    \/ LaterAdd("add_warning")
    \/ LaterAdd("add_correction")
    \/ LaterAdd("add_fraud_indicator")

SnapshotSpec == SnapshotInit /\ [][SnapshotNext]_vars

\* What is read through a dictionary to_dict returned: its errors, warnings,
\* corrections and fraud_indicators are the result's own objects.
Seen(dict, self) ==
    [dict EXCEPT !.errors = self.errors,
                 !.warnings = self.warnings,
                 !.corrections = self.corrections,
                 !.fraud_indicators = self.fraud_indicators]

\* C17: once to_dict has returned a dictionary, a later add_error, add_warning,
\* add_correction or add_fraud_indicator on the same result does not change the
\* errors, warnings, corrections or fraud_indicators seen through that dictionary.
C17_DictIsSnapshot ==
    [][\A i \in DOMAIN dicts : Seen(dicts[i], result') = Seen(dicts[i], result)]_vars

\* A dictionary taken of a valid result shows is_valid true next to an error
\* added afterwards.
C17_Witness ==
    /\ dicts # <<>>
    /\ later > 0
    /\ dicts[1].is_valid
    /\ Seen(dicts[1], result).errors # <<>>
    /\ ~result.is_valid

(***************************************************************************)
(* C18.  The order of the sub-validators.                                  *)
(***************************************************************************)
\* A step of the run leaves the entries already in errors and warnings where
\* they are, ahead of what it adds.
AppendsOnly ==
    /\ IsPrefix(result.errors, result'.errors)
    /\ IsPrefix(result.warnings, result'.warnings)

\* The risk_assessment record is stored by the step of the risk stage only,
\* that step adds no fraud indicator, and none is added after it.
AssessedLast ==
    /\ ("risk_assessment" \in DOMAIN result'.corrections
          /\ "risk_assessment" \notin DOMAIN result.corrections)
       => /\ pc = "risk"
          /\ result'.fraud_indicators = result.fraud_indicators
          /\ FLe(result'.risk_score, F1_0)
          /\ result'.corrections["risk_assessment"].corrected.recommended_action
                = _get_recommended_action(result'.risk_score)
    /\ "risk_assessment" \in DOMAIN result.corrections
       => /\ result'.fraud_indicators = result.fraud_indicators
          /\ result'.corrections["risk_assessment"] = result.corrections["risk_assessment"]

DateParts ==
    {<<"1">>, <<"0","1">>, <<"0","2">>, <<"1","2">>, <<"1","3">>, <<"3","0">>, <<"3","1">>,
     <<"0">>, <<"2","0","2","4">>, <<"2","0","3","0">>}

DateSeparators == {"-", "/"}

DateTexts ==
    {a \o <<sep>> \o b \o <<sep>> \o c : a \in DateParts, b \in DateParts, c \in DateParts,
                                        sep \in DateSeparators}

DateInit ==
    /\ \E text \in DateTexts :
          claim_data = DictSet(MinimalClaim, "incident_date", StrV(text))
    /\ today = BaseToday
    /\ pc = "required"
    /\ result = ValidationResult
    /\ failed = ""
    /\ now = 0
    /\ dicts = <<>>
    /\ calls = <<>>
    /\ heap = <<>>
    /\ db = <<>>
    /\ later = 0

DateSpec == DateInit /\ [][Next]_vars

\* The four readings of a text, one per accepted format.
AsISO(text) == Strptime(text, "-", [y |-> 1, m |-> 2, d |-> 3])
AsMonthDay(text) == Strptime(text, "/", [y |-> 3, m |-> 1, d |-> 2])
AsDayMonth(text) == Strptime(text, "/", [y |-> 3, m |-> 2, d |-> 1])
AsYearFirst(text) == Strptime(text, "/", [y |-> 1, m |-> 2, d |-> 3])

\* The reading the claim gives a text: YYYY-MM-DD, else month/day, else
\* day/month when month/day is no date, else YYYY/MM/DD.
FirstReading(text) ==
    IF AsISO(text).ok THEN AsISO(text)
    ELSE IF AsMonthDay(text).ok THEN AsMonthDay(text)
    ELSE IF AsDayMonth(text).ok THEN AsDayMonth(text)
    ELSE AsYearFirst(text)

\* C19: a string incident_date is read with the first of YYYY-MM-DD, MM/DD/YYYY,
\* DD/MM/YYYY, YYYY/MM/DD that accepts it (a slash date both of whose leading
\* fields are months is month/day; day/month is used only when month/day is no
\* date), and the correction recorded for it is the YYYY-MM-DD rendering of that
\* reading, recorded when the text is not that rendering already.
C19_FirstFormatWins ==
    (Completed("incident") /\ IsStr(Get(claim_data, "incident_date"))
       /\ Truthy(Get(claim_data, "incident_date")))
    => IF FirstReading(Get(claim_data, "incident_date").s).ok
          /\ StrftimeISO(FirstReading(Get(claim_data, "incident_date").s))
                # Get(claim_data, "incident_date").s
       THEN /\ "incident_date" \in DOMAIN result.corrections
            /\ result.corrections["incident_date"]
                 = [original |-> Get(claim_data, "incident_date"),
                    corrected |-> StrV(StrftimeISO(FirstReading(Get(claim_data, "incident_date").s)))]
       ELSE "incident_date" \notin DOMAIN result.corrections

\* 01/02/2024 was read as 2 January: the correction is 2024-01-02.
C19_Witness ==
    /\ Completed("incident")
    /\ Get(claim_data, "incident_date") = StrV(<<"0","1","/","0","2","/","2","0","2","4">>)
    /\ AsDayMonth(Get(claim_data, "incident_date").s).ok
    /\ result.corrections["incident_date"].corrected
          = StrV(<<"2","0","2","4","-","0","1","-","0","2">>)

(***************************************************************************)
(* C20.  An incident_date that none of the four formats accepts.           *)
(***************************************************************************)
\* The value is present and is not a text one of the four formats accepts.
Unparseable(value) ==
    /\ Truthy(value)
    /\ IsStr(value) => ~FirstReading(value.s).ok

\* C20: whenever incident_date is present and cannot be parsed by any of the
\* four formats, be it a malformed string or a value that is not a string, the
\* outcome has an error on field incident_date and is_valid is false.
C20_UnparseableDateRejected ==
    (pc = "returned" /\ Unparseable(Get(claim_data, "incident_date")))
    => HasError("incident_date") /\ ~result.is_valid

\* A claim whose incident_date is the number 20240115 went through every stage
\* and came out valid, with no error at all.
C20_Witness ==
    /\ pc = "returned"
    /\ failed = ""
    /\ Get(claim_data, "incident_date") = IntV(20240115)
    /\ result.is_valid
    /\ result.errors = <<>>
    /\ "incident_date" \notin DOMAIN result.corrections

(***************************************************************************)
(* Runs of validate_claim on incident dates around today and around five   *)
(* years before today.                                                     *)
(***************************************************************************)
RecencyYears == {<<"2","0","2","1">>, <<"2","0","2","6">>, <<"2","0","2","7">>}
RecencyMonths == {<<"1","1">>}
RecencyDays == {<<"0","2">>, <<"0","3">>, <<"0","4">>, <<"3">>}

\* Each date as YYYY-MM-DD and as MM/DD/YYYY.
RecencyTexts ==
    {y \o <<"-">> \o m \o <<"-">> \o d : y \in RecencyYears, m \in RecencyMonths, d \in RecencyDays}
    \cup {m \o <<"/">> \o d \o <<"/">> \o y :
             y \in RecencyYears, m \in RecencyMonths, d \in RecencyDays}

RecencyInit ==
    /\ \E text \in RecencyTexts :
          claim_data = DictSet(MinimalClaim, "incident_date", StrV(text))
    /\ today \in {BaseToday, EarlyToday}
    /\ pc = "required"
    /\ result = ValidationResult
    /\ failed = ""
    /\ now = 0
    /\ dicts = <<>>
    /\ calls = <<>>
    /\ heap = <<>>
    /\ db = <<>>
    /\ later = 0

RecencySpec == RecencyInit /\ [][Next]_vars

HasEntry(entries, field, message) ==
    \E i \in DOMAIN entries : entries[i] = [field |-> field, message |-> message]

FutureError == HasEntry(result.errors, "incident_date", "Incident date cannot be in the future")
OldWarning == HasEntry(result.warnings, "incident_date", "Incident date is more than 5 years ago")

\* dt is earlier than the day of the same month and day-of-month five years
\* before day.
MoreThanFiveYearsBefore(dt, day) ==
    \/ dt.y < day.y - 5
    \/ dt.y = day.y - 5 /\ dt.m < day.m
    \/ dt.y = day.y - 5 /\ dt.m = day.m /\ dt.d < day.d

\* What the incident stage leaves for a parsed date, given which dates count as
\* too old.
DateVerdict(raw, too_old) ==
    /\ FutureError <=> Ordinal(FirstReading(raw.s)) > Ordinal(today)
    /\ OldWarning <=> too_old
    /\ ~(FutureError /\ OldWarning)
    /\ OldWarning => ~HasError("incident_date")
    /\ (~FutureError /\ ~OldWarning)
          => ~HasError("incident_date") /\ WarningsOn("incident_date") = <<>>
    /\ "incident_date" \in DOMAIN result.corrections
          <=> StrftimeISO(FirstReading(raw.s)) # raw.s
    /\ "incident_date" \in DOMAIN result.corrections
          => result.corrections["incident_date"].corrected
                = StrV(StrftimeISO(FirstReading(raw.s)))

WeekendWarning ==
    HasEntry(result.warnings, "incident_timing", "Incident occurred on weekend")

WeekendTag ==
    \E i \in DOMAIN Assessment.risk_factors : Assessment.risk_factors[i] = "weekend_incident"

\* C22: for every incident_date the incident stage parses, in any of the four
\* formats, a run through all stages leaves the weekend warning and the
\* weekend_incident tag (with its +0.05) exactly when the date is a Saturday or
\* a Sunday.
C22_WeekendFlagged ==
    (pc = "returned" /\ failed = "" /\ IsStr(Get(claim_data, "incident_date"))
       /\ FirstReading(Get(claim_data, "incident_date").s).ok)
    => /\ WeekendWarning <=> Weekday(FirstReading(Get(claim_data, "incident_date").s)) >= 5
       /\ WeekendTag <=> Weekday(FirstReading(Get(claim_data, "incident_date").s)) >= 5

\* 01/13/2024, a Saturday, was parsed and corrected to 2024-01-13 by the
\* incident stage, and the run ended without the weekend warning or tag.
C22_Witness ==
    /\ pc = "returned"
    /\ failed = ""
    /\ Get(claim_data, "incident_date") = StrV(<<"0","1","/","1","3","/","2","0","2","4">>)
    /\ result.corrections["incident_date"].corrected
          = StrV(<<"2","0","2","4","-","0","1","-","1","3">>)
    /\ Weekday(FirstReading(Get(claim_data, "incident_date").s)) = 5
    /\ ~WeekendWarning
    /\ ~WeekendTag

(***************************************************************************)
(* Runs of validate_claim on claims that differ in vehicle_year.           *)
(***************************************************************************)
VehicleYears ==
    {IntV(0), IntV(0 - 5), IntV(1899), IntV(1900), IntV(1901), IntV(1973), IntV(1974),
     IntV(1975), IntV(1976), IntV(2020), IntV(2023), IntV(2024), IntV(2025), IntV(2027),
     IntV(2028), IntV(2030),
     FloatV(0), FloatV(189950), FloatV(202000),
     StrV(<<"0">>), StrV(<<"1","8","9","9">>), StrV(<<"2","0","2","0">>),
     StrV(<<"2","0","x","0">>), StrV(<<>>)}

VehicleYearInit ==
    /\ \E year \in VehicleYears :
          claim_data = DictSet(MinimalClaim, "vehicle_year", year)
    /\ today \in {BaseToday, EarlyToday}
    /\ pc = "required"
    /\ result = ValidationResult
    /\ failed = ""
    /\ now = 0
    /\ dicts = <<>>
    /\ calls = <<>>
    /\ heap = <<>>
    /\ db = <<>>
    /\ later = 0

VehicleYearSpec == VehicleYearInit /\ [][Next]_vars

\* C23: for every vehicle_year supplied, a value coercible to an integer y has
\* an error when y < 1900 (0 and negative years included) or y > current_year + 1,
\* a warning and no error when 1900 < y < current_year - 50, and nothing
\* otherwise; a value not coercible to an integer has an error on vehicle_year.
C23_VehicleYearVerdict ==
    (Completed("vehicle") /\ "vehicle_year" \in DOMAIN claim_data
       /\ claim_data["vehicle_year"] # NoneV)
    => IF ~ToInt(claim_data["vehicle_year"]).ok
       THEN HasError("vehicle_year")
       ELSE IF \/ ToInt(claim_data["vehicle_year"]).v < OldestYear
               \/ ToInt(claim_data["vehicle_year"]).v > today.y + 1
       THEN HasError("vehicle_year") /\ WarningsOn("vehicle_year") = <<>>
       ELSE IF /\ ToInt(claim_data["vehicle_year"]).v > OldestYear
               /\ ToInt(claim_data["vehicle_year"]).v < today.y - ClassicAge
       THEN ~HasError("vehicle_year") /\ Len(WarningsOn("vehicle_year")) = 1
       ELSE ~HasError("vehicle_year") /\ WarningsOn("vehicle_year") = <<>>

\* A claim with vehicle_year 0 went through every stage and came out valid,
\* with nothing recorded on vehicle_year.
C23_Witness ==
    /\ pc = "returned"
    /\ failed = ""
    /\ Get(claim_data, "vehicle_year") = IntV(0)
    /\ result.is_valid
    /\ ~HasError("vehicle_year")
    /\ WarningsOn("vehicle_year") = <<>>

(***************************************************************************)
(* C24.  estimated_damage_amount next to claim_amount.                     *)
(***************************************************************************)
ConsistencyWarnings == WarningsOn("amount_consistency")

\* |est - claim| / max(est, claim) > 0.5, for amounts in hundredths.
LargeDiscrepancy(est, claim) ==
    2 * (IF est > claim THEN est - claim ELSE claim - est)
        > (IF est > claim THEN est ELSE claim)

\* C24: with estimated_damage_amount and claim_amount both present, a
\* non-numeric estimate has an error on estimated_damage_amount, a numeric one
\* <= 0 has an error on it, and a numeric one > 0 has no error on it whatever
\* claim_amount is, with one amount_consistency warning exactly when
\* |est - claim| / max(est, claim) > 0.5.
C24_EstimateVerdict ==
    (Completed("financial")
       /\ Get(claim_data, "estimated_damage_amount") # NoneV
       /\ Get(claim_data, "claim_amount") # NoneV)
    => IF ~ToFloat(Get(claim_data, "estimated_damage_amount")).ok
       THEN HasError("estimated_damage_amount") /\ ConsistencyWarnings = <<>>
       ELSE IF ToFloat(Get(claim_data, "estimated_damage_amount")).v <= 0
       THEN HasError("estimated_damage_amount") /\ ConsistencyWarnings = <<>>
       ELSE /\ ~HasError("estimated_damage_amount")
            /\ Len(ConsistencyWarnings) <= 1
            /\ ConsistencyWarnings # <<>>
                 <=> /\ ToFloat(Get(claim_data, "claim_amount")).ok
                     /\ LargeDiscrepancy(ToFloat(Get(claim_data, "estimated_damage_amount")).v,
                                         ToFloat(Get(claim_data, "claim_amount")).v)

\* An estimate of 450.00 next to the claim_amount 'abc' carries the error
\* 'Invalid estimated damage amount format'.
C24_Witness ==
    /\ Completed("financial")
    /\ Get(claim_data, "estimated_damage_amount") = FloatV(45000)
    /\ Get(claim_data, "claim_amount") = StrV(<<"a","b","c">>)
    /\ HasEntry(result.errors, "estimated_damage_amount",
                "Invalid estimated damage amount format")
    /\ HasEntry(result.errors, "claim_amount", "Invalid claim amount format")

(***************************************************************************)
(* Runs of validate_claim on claims that differ in what the five fraud     *)
(* checks read, and in an error and a warning of earlier stages.           *)
(***************************************************************************)
FraudAmounts ==
    {FloatV(50000), IntV(10000), FloatV(5000000), FloatV(5000001), IntV(60000),
     StrV(<<"a","b","c">>), IntV(0)}

FraudHolders ==
    {NoneV,
     StrV(<<"J","O","H","N"," ","D","O","E">>),
     StrV(<<"J","a","n","e"," ","R","o","e">>),
     IntV(12345)}

FraudDescriptions ==
    {StrV(<<"R","e","a","r","-","e","n","d","e","d"," ","a","t"," ","a"," ","l","i","g","h","t">>),
     StrV(<<"H","e"," ","S","U","D","D","E","N","L","Y"," ","b","r","a","k","e","d">>),
     StrV(<<"N","o","t"," ","s","u","r","e",","," ","s","u","d","d","e","n","l","y">>)}

FraudEmails ==
    {StrV(<<"j","o","h","n","@","e","x","a","m","p","l","e",".","c","o","m">>),
     StrV(<<"j","o","h","n">>)}

FraudLocations ==
    {StrV(<<"M","a","i","n"," ","S","t","r","e","e","t">>),
     StrV(<<"M","a","l","l"," ","p","a","r","k","i","n","g"," ","l","o","t">>),
     StrV(<<>>)}

FraudClaims ==
    {[k \in DOMAIN FullClaim \ gone |->
         CASE k = "claim_amount" -> amount
           [] k = "policy_holder_name" -> holder
           [] k = "incident_description" -> description
           [] k = "claimant_email" -> email
           [] k = "incident_location" -> location
           [] OTHER -> FullClaim[k]] :
       amount \in FraudAmounts, holder \in FraudHolders, description \in FraudDescriptions,
       email \in FraudEmails, location \in FraudLocations,
       gone \in SUBSET {"policy_number", "vehicle_vin"}}

FraudInit ==
    /\ claim_data \in FraudClaims
    /\ today = BaseToday
    /\ pc = "required"
    /\ result = ValidationResult
    /\ failed = ""
    /\ now = 0
    /\ dicts = <<>>
    /\ calls = <<>>
    /\ heap = <<>>
    /\ db = <<>>
    /\ later = 0

FraudSpec == FraudInit /\ [][Next]_vars

IndicatorEntries(name) ==
    SelectSeq(result.fraud_indicators, LAMBDA f : f.indicator = name)

\* The indicator is there once, with this severity, when its condition holds,
\* and not at all when it does not.
OnceIff(name, severity, condition) ==
    IF condition
    THEN Len(IndicatorEntries(name)) = 1 /\ IndicatorEntries(name)[1].severity = severity
    ELSE IndicatorEntries(name) = <<>>

\* The conditions of the five checks, read off the input map.
HighValueCondition ==
    /\ ToFloat(Get(claim_data, "claim_amount")).ok
    /\ ToFloat(Get(claim_data, "claim_amount")).v > 50000 * 100

NameMismatchCondition ==
    /\ Truthy(Get(claim_data, "claimant_name"))
    /\ Truthy(Get(claim_data, "policy_holder_name"))
    /\ Lower(Get(claim_data, "claimant_name").s) # Lower(Get(claim_data, "policy_holder_name").s)

VagueCondition ==
    /\ IsStr(Get(claim_data, "incident_description"))
    /\ \E i \in DOMAIN vague_keywords :
          Contains(vague_keywords[i].chars, Lower(Get(claim_data, "incident_description").s))

RoundCondition ==
    /\ ToFloat(Get(claim_data, "claim_amount")).ok
    /\ ToFloat(Get(claim_data, "claim_amount")).v % (1000 * 100) = 0
    /\ ToFloat(Get(claim_data, "claim_amount")).v >= 5000 * 100

MissingCondition ==
    Cardinality({f \in {"policy_number", "incident_location", "vehicle_vin"} :
                    ~Truthy(Get(claim_data, f))}) >= 2

FiveChecks ==
    /\ OnceIff("high_value_claim", "medium", HighValueCondition)
    /\ OnceIff("name_mismatch", "low", NameMismatchCondition)
    /\ OnceIff("vague_description", "low", VagueCondition)
    /\ OnceIff("round_number", "low", RoundCondition)
    /\ OnceIff("missing_information", "medium", MissingCondition)
    /\ \A i \in DOMAIN result.fraud_indicators :
          result.fraud_indicators[i].indicator
             \in {"high_value_claim", "name_mismatch", "vague_description", "round_number",
                  "missing_information"}

FillKeys ==
    {"claimant_name", "incident_date", "claim_amount", "incident_description",
     "incident_location"}

FillValues(key) ==
    {NoneV, StrV(<<" ">>), StrV(<<>>), MinimalClaim["claimant_name"]}
    \cup (IF key = "claim_amount" THEN {IntV(0), FloatV(50000)} ELSE {})
    \cup (IF key \in DOMAIN MinimalClaim THEN {MinimalClaim[key]} ELSE {})

FillClaims ==
    UNION {{m \in [keys -> UNION {FillValues(k) : k \in keys}] :
               \A k \in keys : m[k] \in FillValues(k)} : keys \in SUBSET FillKeys}

FillInit ==
    /\ claim_data \in FillClaims
    /\ today = BaseToday
    /\ pc = "required"
    /\ result = ValidationResult
    /\ failed = ""
    /\ now = 0
    /\ dicts = <<>>
    /\ calls = <<>>
    /\ heap = <<>>
    /\ db = <<>>
    /\ later = 0

FillSpec == FillInit /\ [][Next]_vars

HasTag(tag) ==
    \E i \in DOMAIN Assessment.risk_factors : Assessment.risk_factors[i] = tag

\* The weight the risk assessment adds with a tag.
TagWeight(tag) ==
    CASE tag = "high_value" -> F0_3
      [] tag = "incomplete_information" -> F0_2
      [] tag = "new_vehicle" -> F0_1
      [] OTHER -> F0_05

\* score plus the weights of the first n tags, added in the order of the tags.
RECURSIVE PlusTags(_, _, _)
PlusTags(score, tags, n) ==
    IF n = 0 THEN score ELSE FAdd(PlusTags(score, tags, n - 1), TagWeight(tags[n]))

\* The keys whose value is not None and not blank as a text.
FilledKeys ==
    {k \in DOMAIN claim_data :
        /\ claim_data[k] # NoneV
        /\ IsStr(claim_data[k]) => \E i \in DOMAIN claim_data[k].s : claim_data[k].s[i] # " "}

\* C26: the risk assessment records the incomplete_information tag exactly when
\* the filled values are less than half of the keys of the input map, an empty
\* map counting as ratio 0 (no division by zero: the tag is recorded); and the
\* score the assessment leaves is the score it found plus the weights of the
\* tags it recorded, 0.20 for this one, capped at 1.0.
C26_IncompleteInformation ==
    /\ [](Completed("risk")
            => /\ HasTag("incomplete_information")
                    <=> \/ DOMAIN claim_data = {}
                        \/ 2 * Cardinality(FilledKeys) < Cardinality(DOMAIN claim_data)
               /\ Cardinality({i \in DOMAIN Assessment.risk_factors :
                                  Assessment.risk_factors[i] = "incomplete_information"}) <= 1)
    /\ [][(pc = "risk" /\ pc' = "returned")
            => result'.risk_score
                 = FMin(PlusTags(result.risk_score,
                                 result'.corrections["risk_assessment"].corrected.risk_factors,
                                 Len(result'.corrections["risk_assessment"].corrected.risk_factors)),
                        F1_0)]_vars

\* The empty map went through the assessment and carries the tag.
C26_Witness ==
    /\ Completed("risk")
    /\ claim_data = EmptyDict
    /\ HasTag("incomplete_information")
    /\ FGt(result.risk_score, F0_0)

(***************************************************************************)
(* C27.  The new_vehicle contribution.                                     *)
(***************************************************************************)
\* C27: the risk assessment records the new_vehicle tag (with its +0.10)
\* exactly when vehicle_year is within 2 years of the current year; a year more
\* than 2 years away, older or later, does not get it.
C27_NewVehicleWithinTwoYears ==
    Completed("risk")
    => (HasTag("new_vehicle")
          <=> /\ Get(claim_data, "vehicle_year") # NoneV
              /\ ToInt(Get(claim_data, "vehicle_year")).ok
              /\ ToInt(Get(claim_data, "vehicle_year")).v >= today.y - NewVehicleAge
              /\ ToInt(Get(claim_data, "vehicle_year")).v <= today.y + NewVehicleAge)

\* In 2026 the vehicle_year 2030 has the error 'Vehicle year cannot be in the
\* future' and the new_vehicle tag.
C27_Witness ==
    /\ Completed("risk")
    /\ today = BaseToday
    /\ Get(claim_data, "vehicle_year") = IntV(2030)
    /\ HasEntry(result.errors, "vehicle_year", "Vehicle year cannot be in the future")
    /\ HasTag("new_vehicle")

(***************************************************************************)
(* C28.  Which values the required-field check reports.                    *)
(***************************************************************************)
ReportedMissing(field) ==
    HasEntry(result.errors, field, "Required field '" \o field \o "' is missing or empty")

\* C28: the required-field check reports a field as missing or empty only when
\* it is absent, null or a blank string; a present value that is not a text, a
\* claim_amount of 0 for one, is not reported, so that claim_amount = 0 has
\* exactly one error on claim_amount, the 'must be positive' one.
C28_OnlyBlankReported ==
    /\ Ended("required")
         => \A i \in DOMAIN required_fields :
               ReportedMissing(required_fields[i]) => Blank(required_fields[i])
    /\ (Completed("financial") /\ Get(claim_data, "claim_amount") \in {IntV(0), FloatV(0)})
         => ErrorsOn("claim_amount")
               = <<[field |-> "claim_amount", message |-> "Claim amount must be positive"]>>

\* claim_amount = 0 carries two errors: reported as missing by the required-field
\* check, and as not positive by the financial stage.
C28_Witness ==
    /\ Completed("financial")
    /\ Get(claim_data, "claim_amount") = IntV(0)
    /\ ErrorsOn("claim_amount")
          = <<[field |-> "claim_amount",
               message |-> "Required field 'claim_amount' is missing or empty"],
              [field |-> "claim_amount", message |-> "Claim amount must be positive"]>>

(***************************************************************************)
(* C29.  The risk_assessment entry of a returned outcome.                  *)
(***************************************************************************)
\* C29: every outcome validate_claim returns, also when a sub-validator raised,
\* has a corrections entry 'risk_assessment' with risk_factors, overall_risk and
\* recommended_action.
C29_AssessmentAlwaysThere ==
    pc = "returned"
    => /\ "risk_assessment" \in DOMAIN result.corrections
       /\ DOMAIN result.corrections["risk_assessment"].corrected
             = {"risk_factors", "overall_risk", "recommended_action"}
       /\ result.corrections["risk_assessment"].corrected.recommended_action
             = _get_recommended_action(result.risk_score)

\* The personal stage raised on a claimant_name that is a number: the outcome
\* returned has the validation_process error and no risk_assessment entry.
C29_Witness ==
    /\ pc = "returned"
    /\ failed = "personal"
    /\ Get(claim_data, "claimant_name") = IntV(12345)
    /\ HasError("validation_process")
    /\ "risk_assessment" \notin DOMAIN result.corrections

(***************************************************************************)
(* Runs of validate_claim on claims that differ in vehicle_vin: a VIN with *)
(* three of its places rewritten, or cut short, or one character longer.   *)
(***************************************************************************)
BaseVin == FullClaim["vehicle_vin"].s

VinPlaces == <<1, 9, 17>>

VinAlphabet == {"A", "h", "z", "I", "i", "O", "o", "Q", "q", "0", "X", "-", " "}

VinTexts ==
    {[i \in 1..17 |-> CASE i = VinPlaces[1] -> a
                        [] i = VinPlaces[2] -> b
                        [] i = VinPlaces[3] -> c
                        [] OTHER -> BaseVin[i]] :
        a \in VinAlphabet, b \in VinAlphabet, c \in VinAlphabet}
    \cup {SubSeq(BaseVin, 1, 16), BaseVin \o <<"7">>, BaseVin}

VinInit ==
    /\ \E text \in VinTexts :
          claim_data = DictSet(MinimalClaim, "vehicle_vin", StrV(text))
    /\ today = BaseToday
    /\ pc = "required"
    /\ result = ValidationResult
    /\ failed = ""
    /\ now = 0
    /\ dicts = <<>>
    /\ calls = <<>>
    /\ heap = <<>>
    /\ db = <<>>
    /\ later = 0

VinSpec == VinInit /\ [][Next]_vars

\* 17 characters, each a digit or a letter other than I, O and Q, in either case.
WellFormedVin(text) ==
    /\ Len(text) = 17
    /\ \A i \in DOMAIN text :
          /\ text[i] \in UpperSet \cup LowerSet \cup DigitSet
          /\ text[i] \notin {"I", "O", "Q", "i", "o", "q"}

\* C30: the 'VIN checksum validation failed' warning is never produced: for
\* every vehicle_vin that passes the length check and the character check
\* _validate_vin_checksum answers true, and a well-formed VIN leaves neither an
\* error nor a warning on vehicle_vin.
C30_ChecksumWarningUnreachable ==
    /\ ~HasEntry(result.warnings, "vehicle_vin", "VIN checksum validation failed")
    /\ (IsStr(Get(claim_data, "vehicle_vin"))
          /\ Len(Get(claim_data, "vehicle_vin").s) = VinLength
          /\ ReMatchCount(Upper(Get(claim_data, "vehicle_vin").s), VinChars, VinLength))
         => _validate_vin_checksum(Get(claim_data, "vehicle_vin").s)
    /\ (Completed("vehicle") /\ IsStr(Get(claim_data, "vehicle_vin"))
          /\ WellFormedVin(Get(claim_data, "vehicle_vin").s))
         => ~HasError("vehicle_vin") /\ WarningsOn("vehicle_vin") = <<>>

\* A well-formed VIN with a lower-case letter and no check digit in the ninth
\* place went through the vehicle stage with nothing recorded on vehicle_vin.
C30_Witness ==
    /\ Completed("vehicle")
    /\ WellFormedVin(Get(claim_data, "vehicle_vin").s)
    /\ Get(claim_data, "vehicle_vin").s[9] = "h"
    /\ ~HasError("vehicle_vin")
    /\ WarningsOn("vehicle_vin") = <<>>

====
